---- MODULE Spec2Model ----
(***************************************************************************)
(* State-machine model of the RAD Security MCP server: the asynchronous    *)
(* workflow runner (operations/workflows.ts), the RadQL batch executor,    *)
(* query builder, query executor and error enricher (operations/radql.ts), *)
(* the container runtime aggregators with their process-tree reducer       *)
(* (operations/runtime.ts), the toolkit filters, request handlers and the  *)
(* streamable-HTTP and SSE transports of the server (index.ts), the token  *)
(* cache of the API client (client.ts) and the logger (logger.ts).         *)
(*                                                                         *)
(* Each subsystem has its own specification (SpecWorkflow, SpecBatch, ...);*)
(* the variables of the other subsystems are held at their initial value.  *)
(***************************************************************************)
EXTENDS Integers, Sequences, FiniteSets, TLC

VARIABLES
    \* ---- runWorkflow (operations/workflows.ts) ----
    wfPc,          \* position of the runWorkflow call
    wfAsync,       \* the `async` argument
    wfNow,         \* Date.now(), in ms since the call was made
    wfStartTime,   \* the local `startTime`
    wfResponse,    \* the local `response` of the start call
    wfRunDetails,  \* the local `runDetails` of the last poll
    wfStatus,      \* the local `status` of the last poll
    wfPolls,       \* number of getWorkflowRun calls issued
    wfReturned,    \* number of getWorkflowRun calls that returned a payload
    wfSleeps,      \* number of setTimeout sleeps started
    wfResult,      \* what the call settled with
    \* ---- executeBatchQueries (operations/radql.ts) ----
    bqPc,          \* position of the executeBatchQueries call
    bqQueries,     \* args.queries
    bqInner,       \* the promises executeRadQLQuery(client, query)
    bqPromises,    \* the local `promises`: each inner promise with its .catch
    bqAll,         \* the promise Promise.all(promises), which the call returns
    bqOrder,       \* indices of the queries in the order they settled
    \* ---- reduceProcesses (operations/runtime.ts) ----
    rpPc,          \* "ready" before the call, "done" after it
    rpProcesses,   \* the argument `processes`
    rpLimit,       \* the argument `limit`
    rpTree,        \* the returned list of lines
    \* ---- getContainersBaselines / getContainersProcessTrees ----
    agPc,          \* position of the call
    agVariant,     \* "baselines" or "processTrees"
    agIds,         \* the argument `containerIds`
    agLimit,       \* the argument `processesLimit`
    agCris,        \* the local `cris`, the answer of the list call
    agIdx,         \* position in cris.entries of the entry being fetched
    agMap,         \* the local `baselines` / `containersProcessTrees`
    agRequests,    \* the API requests issued so far
    agResult,      \* what the call settled with
    \* ---- buildRadQLQuery (operations/radql.ts) ----
    bdPc,          \* "ready" before the call, "done" after it
    bdInput,       \* the tool arguments as given
    bdArgs,        \* the argument `args`, parsed by the schema
    bdResult,      \* what the call returned or threw
    \* ---- handleRadQLError (operations/radql.ts) ----
    hePc,          \* "ready" before the call, "done" after it
    heError,       \* the argument `error`
    heDataType,    \* the argument `dataType`
    heResult,      \* the error it returned
    \* ---- executeRadQLQuery (operations/radql.ts) ----
    eqPc,          \* position of the executeRadQLQuery call
    eqArgs,        \* the argument `args`
    eqStatus,      \* status of the API's answer, 0 while there is none
    eqResult,      \* what the call settled with
    \* ---- MCP server (index.ts) ----
    svPc,          \* "starting", "serving", "awaiting" (an operation), "exited"
    svInclude,     \* process.env.INCLUDE_TOOLKITS
    svExclude,     \* process.env.EXCLUDE_TOOLKITS
    svFilters,     \* the local `toolkitFilters` of newServer
    svRequest,     \* the request last handed to a handler
    svOperation,   \* the tool whose operation that request invoked, or "none"
    svReply,       \* what the handler settled with
    \* ---- listDataItems / getDataStats (operations/radql.ts) ----
    qxPc,          \* "ready", "awaiting" (the API request), "done"
    qxOperation,   \* "list" or "stats"
    qxParams,      \* the argument `params`
    qxQueryParams, \* the local `queryParams` handed to makeRequest
    qxResult,      \* what the call settled with
    \* ---- streamable-HTTP transport of main (index.ts) ----
    stTransports,  \* the local `transports`: session id -> transport
    stSessions,    \* the transports created so far, in order
    stRequest,     \* the request last handed to a route handler
    stReply,       \* how that request was answered
    \* ---- SSE transport of main (index.ts) ----
    ssTransport,   \* the local `transport` shared by the two routes
    ssOwners,      \* the client of each transport created, in order
    ssStarted,     \* the transports whose server.connect has returned
    ssHandled,     \* the posts handled so far: client and transport
    ssRequest,     \* the request last handed to a route handler
    ssReply,       \* how that request was answered
    \* ---- RadSecurityClient (client.ts) ----
    ckNow,         \* new Date(), in minutes since the client was made
    ckCache,       \* the field `tokenCache`
    ckCalls,       \* each makeRequest call: position, token, where it came from
    ckAuthRequests, \* number of authentication requests issued
    ckAuthLog,     \* the successful authentications, in order of completion
    ckSent,        \* the API requests sent: call and bearer token
    \* ---- Logger (logger.ts) ----
    lgMinLevel,    \* the field `minLevel`
    lgEnableStderr, \* the field `enableStderr`
    lgEnableMcp,   \* the field `enableMcpNotifications`
    lgStderrFormat, \* the field `stderrFormat`
    lgServer,      \* the fields `server` and `sessionId`
    lgCall,        \* the last log call: level and the caller's data after it
    lgStderr,      \* what that call wrote to stderr
    lgNotification \* what that call sent as an MCP notification

wfVars == <<wfPc, wfAsync, wfNow, wfStartTime, wfResponse, wfRunDetails,
            wfStatus, wfPolls, wfReturned, wfSleeps, wfResult>>

bqVars == <<bqPc, bqQueries, bqInner, bqPromises, bqAll, bqOrder>>

rpVars == <<rpPc, rpProcesses, rpLimit, rpTree>>

agVars == <<agPc, agVariant, agIds, agLimit, agCris, agIdx, agMap, agRequests,
            agResult>>

bdVars == <<bdPc, bdInput, bdArgs, bdResult>>

heVars == <<hePc, heError, heDataType, heResult>>

eqVars == <<eqPc, eqArgs, eqStatus, eqResult>>

svVars == <<svPc, svInclude, svExclude, svFilters, svRequest, svOperation, svReply>>

qxVars == <<qxPc, qxOperation, qxParams, qxQueryParams, qxResult>>

stVars == <<stTransports, stSessions, stRequest, stReply>>

ssVars == <<ssTransport, ssOwners, ssStarted, ssHandled, ssRequest, ssReply>>

ckVars == <<ckNow, ckCache, ckCalls, ckAuthRequests, ckAuthLog, ckSent>>

lgVars == <<lgMinLevel, lgEnableStderr, lgEnableMcp, lgStderrFormat, lgServer, lgCall, lgStderr, lgNotification>>

vars == <<wfVars, bqVars, rpVars, agVars, bdVars, heVars, eqVars, svVars,
          qxVars, stVars, ssVars, ckVars, lgVars>>

\* The variables outside each subsystem, which its steps leave alone.
OutsideWorkflow ==
    <<bqVars, rpVars, agVars, bdVars, heVars, eqVars, svVars, qxVars, stVars, ssVars, ckVars, lgVars>>
OutsideBatch ==
    <<wfVars, rpVars, agVars, bdVars, heVars, eqVars, svVars, qxVars, stVars, ssVars, ckVars, lgVars>>
OutsideReduce ==
    <<wfVars, bqVars, agVars, bdVars, heVars, eqVars, svVars, qxVars, stVars, ssVars, ckVars, lgVars>>
OutsideAggregator ==
    <<wfVars, bqVars, rpVars, bdVars, heVars, eqVars, svVars, qxVars, stVars, ssVars, ckVars, lgVars>>
OutsideBuilder ==
    <<wfVars, bqVars, rpVars, agVars, heVars, eqVars, svVars, qxVars, stVars, ssVars, ckVars, lgVars>>
OutsideEnricher ==
    <<wfVars, bqVars, rpVars, agVars, bdVars, eqVars, svVars, qxVars, stVars, ssVars, ckVars, lgVars>>
OutsideQuery ==
    <<wfVars, bqVars, rpVars, agVars, bdVars, heVars, svVars, qxVars, stVars, ssVars, ckVars, lgVars>>
OutsideServer ==
    <<wfVars, bqVars, rpVars, agVars, bdVars, heVars, eqVars, qxVars, stVars, ssVars, ckVars, lgVars>>
OutsideExplainer ==
    <<wfVars, bqVars, rpVars, agVars, bdVars, heVars, eqVars, svVars, stVars, ssVars, ckVars, lgVars>>
OutsideStreamable ==
    <<wfVars, bqVars, rpVars, agVars, bdVars, heVars, eqVars, svVars, qxVars, ssVars, ckVars, lgVars>>
OutsideSse ==
    <<wfVars, bqVars, rpVars, agVars, bdVars, heVars, eqVars, svVars, qxVars, stVars, ckVars, lgVars>>
OutsideClient ==
    <<wfVars, bqVars, rpVars, agVars, bdVars, heVars, eqVars, svVars, qxVars, stVars, ssVars, lgVars>>
OutsideLogger ==
    <<wfVars, bqVars, rpVars, agVars, bdVars, heVars, eqVars, svVars, qxVars, stVars, ssVars, ckVars>>

(***************************************************************************)
(*                       runWorkflow: values                               *)
(***************************************************************************)

\* JavaScript's undefined (an absent property) and null.
Undefined == "undefined"
Null == [null |-> TRUE]

\* const pollInterval = 2000; const maxWaitTime = 300000;
pollInterval == 2000
maxWaitTime == 300000

\* A slow API request takes PollLatency ms, a fast one none.
PollLatency == 60000
Latencies == {0, PollLatency}

\* Status values a run payload can carry; Undefined is a payload without one.
RunStatuses == {"completed", "failed", "cancelled", "running", "queued", Undefined}

\* Bodies the start call (POST .../runs) can answer with.
StartResponses == {Null, [id |-> Undefined], [id |-> "run-1"], [id |-> "run-2"]}

\* Ways a request can fail inside getTenantId / makeRequest.
NoResult == [kind |-> "none"]
Returned(value) == [kind |-> "returned", value |-> value]
Failed(error) == [kind |-> "error", error |-> error]
TimeoutError(seconds, status) ==
    [kind |-> "error", error |-> "did not finish within", seconds |-> seconds,
     lastStatus |-> status]

\* Mutant: only the null check, the id check forgotten.
NoIdInResponse_NullOnly(response) == response = Null

\* if (!response || !response.id)
NoIdInResponse(response) == response = Null \/ response.id = Undefined

\* Mutant: "cancelled" forgotten among the finished statuses.
IsFinished_NoCancelled(status) == status = "completed" \/ status = "failed"

\* Mutant: everything but "running" taken as finished.
IsFinished_NotRunning(status) == status # "running"

\* if (status === "completed" || status === "failed" || status === "cancelled")
IsFinished(status) == status = "completed" \/ status = "failed" \/ status = "cancelled"

\* Mutant: the timeout compared with >= instead of >.
WaitExceeded_AtLeast(now, startTime) == now - startTime >= maxWaitTime

\* if (Date.now() - startTime > maxWaitTime)
WaitExceeded(now, startTime) == now - startTime > maxWaitTime

(***************************************************************************)
(*                       runWorkflow: steps                                *)
(***************************************************************************)

WfInit ==
    /\ wfPc = "idle"
    /\ wfAsync = TRUE
    /\ wfNow = 0
    /\ wfStartTime = 0
    /\ wfResponse = NoResult
    /\ wfRunDetails = NoResult
    /\ wfStatus = "none"
    /\ wfPolls = 0
    /\ wfReturned = 0
    /\ wfSleeps = 0
    /\ wfResult = NoResult

\* runWorkflow(client, workflowId, async) is called: it awaits getTenantId.
RunWorkflow ==
    /\ wfPc = "idle"
    /\ \E a \in BOOLEAN : wfAsync' = a
    /\ wfPc' = "getTenantId"
    /\ UNCHANGED <<wfNow, wfStartTime, wfResponse, wfRunDetails, wfStatus,
                   wfPolls, wfReturned, wfSleeps, wfResult>>

\* getTenantId settles: the account request fails, or the account has no
\* parent_id, or the tenant id is returned and the definition is requested.
GetTenantId ==
    /\ wfPc = "getTenantId"
    /\ \E outcome \in {"HTTP error", "No parent_id found", "ok"} :
          IF outcome = "ok"
          THEN wfPc' = "getWorkflow" /\ wfResult' = wfResult
          ELSE wfPc' = "done" /\ wfResult' = Failed(outcome)
    /\ UNCHANGED <<wfAsync, wfNow, wfStartTime, wfResponse, wfRunDetails,
                   wfStatus, wfPolls, wfReturned, wfSleeps>>

\* The workflow definition request settles; without flow.schema it fails.
GetWorkflow ==
    /\ wfPc = "getWorkflow"
    /\ \E outcome \in {"HTTP error", "Failed to get workflow schema", "ok"} :
          IF outcome = "ok"
          THEN wfPc' = "startRun" /\ wfResult' = wfResult
          ELSE wfPc' = "done" /\ wfResult' = Failed(outcome)
    /\ UNCHANGED <<wfAsync, wfNow, wfStartTime, wfResponse, wfRunDetails,
                   wfStatus, wfPolls, wfReturned, wfSleeps>>

\* The start call (POST .../runs) fails.
StartRunFails ==
    /\ wfPc = "startRun"
    /\ wfPc' = "done"
    /\ wfResult' = Failed("HTTP error")
    /\ UNCHANGED <<wfAsync, wfNow, wfStartTime, wfResponse, wfRunDetails,
                   wfStatus, wfPolls, wfReturned, wfSleeps>>

\* The start call returns `response`; the code up to the first poll runs:
\* the id check, the async return, startTime = Date.now(), getWorkflowRun.
StartRunReturns ==
    /\ wfPc = "startRun"
    /\ \E response \in StartResponses, latency \in Latencies :
          /\ wfResponse' = response
          /\ wfNow' = wfNow + latency
          /\ IF NoIdInResponse(response)
             THEN /\ wfPc' = "done"
                  /\ wfResult' = Failed("no id in response")
                  /\ UNCHANGED <<wfStartTime, wfPolls>>
             ELSE IF wfAsync
             THEN /\ wfPc' = "done"
                  /\ wfResult' = Returned([run_id |-> response.id,
                                            status |-> "running",
                                            message |-> "Workflow started asynchronously"])
                  /\ UNCHANGED <<wfStartTime, wfPolls>>
             ELSE /\ wfPc' = "pollTenant"
                  /\ wfStartTime' = wfNow'
                  /\ wfPolls' = wfPolls + 1
                  /\ wfResult' = wfResult
    /\ UNCHANGED <<wfAsync, wfRunDetails, wfStatus, wfReturned, wfSleeps>>

\* getWorkflowRun: its getTenantId settles.
PollTenant ==
    /\ wfPc = "pollTenant"
    /\ \E outcome \in {"HTTP error", "No parent_id found", "ok"} :
          IF outcome = "ok"
          THEN wfPc' = "pollRun" /\ wfResult' = wfResult
          ELSE wfPc' = "done" /\ wfResult' = Failed(outcome)
    /\ UNCHANGED <<wfAsync, wfNow, wfStartTime, wfResponse, wfRunDetails,
                   wfStatus, wfPolls, wfReturned, wfSleeps>>

\* getWorkflowRun: the run request fails, and runWorkflow fails with it.
PollRunFails ==
    /\ wfPc = "pollRun"
    /\ wfPc' = "done"
    /\ wfResult' = Failed("HTTP error")
    /\ UNCHANGED <<wfAsync, wfNow, wfStartTime, wfResponse, wfRunDetails,
                   wfStatus, wfPolls, wfReturned, wfSleeps>>

\* Mutant: the timeout tested before the status of the poll.
PollRunReturns_TimeoutFirst ==
    /\ wfPc = "pollRun"
    /\ \E status \in RunStatuses, latency \in Latencies :
          /\ wfRunDetails' = [id |-> wfResponse.id, status |-> status]
          /\ wfStatus' = status
          /\ wfNow' = wfNow + latency
          /\ wfReturned' = wfReturned + 1
          /\ IF WaitExceeded(wfNow', wfStartTime)
             THEN /\ wfPc' = "done"
                  /\ wfResult' = TimeoutError(maxWaitTime \div 1000, status)
                  /\ wfSleeps' = wfSleeps
             ELSE IF IsFinished(status)
             THEN /\ wfPc' = "done"
                  /\ wfResult' = Returned(wfRunDetails')
                  /\ wfSleeps' = wfSleeps
             ELSE /\ wfPc' = "sleeping"
                  /\ wfResult' = wfResult
                  /\ wfSleeps' = wfSleeps + 1
    /\ UNCHANGED <<wfAsync, wfStartTime, wfResponse, wfPolls>>

\* getWorkflowRun returns the run details; the loop body runs up to the
\* sleep: the terminal check, then the timeout check, then setTimeout.
PollRunReturns ==
    /\ wfPc = "pollRun"
    /\ \E status \in RunStatuses, latency \in Latencies :
          /\ wfRunDetails' = [id |-> wfResponse.id, status |-> status]
          /\ wfStatus' = status
          /\ wfNow' = wfNow + latency
          /\ wfReturned' = wfReturned + 1
          /\ IF IsFinished(status)
             THEN /\ wfPc' = "done"
                  /\ wfResult' = Returned(wfRunDetails')
                  /\ wfSleeps' = wfSleeps
             ELSE IF WaitExceeded(wfNow', wfStartTime)
             THEN /\ wfPc' = "done"
                  /\ wfResult' = TimeoutError(maxWaitTime \div 1000, status)
                  /\ wfSleeps' = wfSleeps
             ELSE /\ wfPc' = "sleeping"
                  /\ wfResult' = wfResult
                  /\ wfSleeps' = wfSleeps + 1
    /\ UNCHANGED <<wfAsync, wfStartTime, wfResponse, wfPolls>>

\* The setTimeout(resolve, pollInterval) fires: the next getWorkflowRun.
SleepElapses ==
    /\ wfPc = "sleeping"
    /\ wfNow' = wfNow + pollInterval
    /\ wfPc' = "pollTenant"
    /\ wfPolls' = wfPolls + 1
    /\ UNCHANGED <<wfAsync, wfStartTime, wfResponse, wfRunDetails, wfStatus,
                   wfReturned, wfSleeps, wfResult>>

WfStep ==
    \/ GetTenantId
    \/ GetWorkflow
    \/ StartRunFails
    \/ StartRunReturns
    \/ PollTenant
    \/ PollRunFails
    \/ PollRunReturns
    \/ SleepElapses

(***************************************************************************)
(*                     executeBatchQueries: values                         *)
(***************************************************************************)

\* Longest query list explored (the schema allows up to 10).
MaxQueries == 3

\* Queries of the batch: a list, a get_by_id without its id, a stats query.
BatchQueries ==
    {[operation |-> "list", data_type |-> "containers", id |-> Undefined],
     [operation |-> "get_by_id", data_type |-> "containers", id |-> Undefined],
     [operation |-> "stats", data_type |-> "inbox_items", id |-> Undefined]}

QueryLists == UNION {[1..n -> BatchQueries] : n \in 0..MaxQueries}

\* Promise states.
Pending == [state |-> "pending"]
Fulfilled(value) == [state |-> "fulfilled", value |-> value]
Rejected(reason) == [state |-> "rejected", reason |-> reason]

\* What executeRadQLQuery(client, query) can settle with: get_by_id without
\* an id throws before any request; otherwise the request's payload, or the
\* error of makeRequest passed through handleRadQLError.
QueryOutcomes(query) ==
    IF query.operation = "get_by_id" /\ query.id = Undefined
    THEN {Rejected([message |-> "id is required for get_by_id operation"])}
    ELSE {Fulfilled([data |-> <<query.operation, query.data_type>>]),
          Rejected([message |-> "HTTP error! status: 500"])}

\* Mutant: the inner promise used as it is, without the .catch handler.
WithCatch_Dropped(inner, query) == inner

\* executeRadQLQuery(client, query).catch(err => ({error: err.message, query}))
WithCatch(inner, query) ==
    IF inner.state = "rejected"
    THEN Fulfilled([error |-> inner.reason.message, query |-> query])
    ELSE inner

\* Promise.all(promises): rejected as soon as one of them is, fulfilled with
\* the values in index order once all of them are, pending otherwise.
PromiseAll(promises) ==
    IF \E i \in DOMAIN promises : promises[i].state = "rejected"
    THEN Rejected((promises[CHOOSE i \in DOMAIN promises :
                                promises[i].state = "rejected"]).reason)
    ELSE IF \A i \in DOMAIN promises : promises[i].state = "fulfilled"
    THEN Fulfilled([i \in DOMAIN promises |-> promises[i].value])
    ELSE Pending

(***************************************************************************)
(*                     executeBatchQueries: steps                          *)
(***************************************************************************)

BqInit ==
    /\ bqPc = "idle"
    /\ bqQueries = <<>>
    /\ bqInner = <<>>
    /\ bqPromises = <<>>
    /\ bqAll = Pending
    /\ bqOrder = <<>>

\* executeBatchQueries(client, args): every query is started, each promise
\* gets its .catch, and the call awaits Promise.all of them.
ExecuteBatchQueries ==
    /\ bqPc = "idle"
    /\ \E queries \in QueryLists :
          /\ bqQueries' = queries
          /\ bqInner' = [i \in DOMAIN queries |-> Pending]
          /\ bqPromises' = [i \in DOMAIN queries |-> WithCatch(Pending, queries[i])]
          /\ bqAll' = PromiseAll(bqPromises')
          /\ bqPc' = IF bqAll'.state = "pending" THEN "awaiting" ELSE "done"
    /\ UNCHANGED bqOrder

\* One of the running queries settles; its .catch promise follows, and
\* Promise.all settles if this decides it (a settled promise stays as it is).
QuerySettles ==
    /\ bqPc # "idle"
    /\ \E i \in DOMAIN bqInner :
          /\ bqInner[i].state = "pending"
          /\ \E outcome \in QueryOutcomes(bqQueries[i]) :
                /\ bqInner' = [bqInner EXCEPT ![i] = outcome]
                /\ bqPromises' = [bqPromises EXCEPT ![i] = WithCatch(outcome, bqQueries[i])]
          /\ bqOrder' = Append(bqOrder, i)
    /\ bqAll' = IF bqAll.state = "pending" THEN PromiseAll(bqPromises') ELSE bqAll
    /\ bqPc' = IF bqAll'.state = "pending" THEN "awaiting" ELSE "done"
    /\ UNCHANGED bqQueries

(***************************************************************************)
(*                        reduceProcesses: values                          *)
(***************************************************************************)

\* Most programs of one process, and the largest limit, explored.
MaxPrograms == 2
MaxLimit == 3

\* A process node: its timestamp (which identifies it in its lines), the
\* number of its programs and of its connections (an absent list counts as
\* none), and its children.
ProcessNode(timestamp, programs, connections, children) ==
    [timestamp |-> timestamp, programs |-> programs,
     connections |-> connections, children |-> children]

\* Nodes without children, then nodes with at most one child.
LeafProcesses(timestamp) ==
    {ProcessNode(timestamp, p, c, <<>>) : p \in 0..MaxPrograms, c \in 0..1}

Processes(timestamp) ==
    {ProcessNode(timestamp, p, c, ch) :
        p \in 0..MaxPrograms, c \in 0..1,
        ch \in {<<>>} \cup {<<leaf>> : leaf \in LeafProcesses(10 * timestamp + 1)}}

\* Process lists of at most two top-level processes.
ProcessLists ==
    {<<>>} \cup {<<a>> : a \in Processes(1)}
           \cup {<<a, b>> : a \in Processes(1), b \in Processes(2)}

Limits == (-1)..MaxLimit

\* Output lines: `${indent}├─ [${timestamp}] ${comm}: ${args}` for the k-th
\* program, `${indent}│  └─ Connection to ...` for the k-th connection, and
\* the truncation notice.
ProgramLine(indent, process, k) ==
    [kind |-> "program", indent |-> indent, timestamp |-> process.timestamp, index |-> k]
ConnectionLine(indent, process, k) ==
    [kind |-> "connection", indent |-> indent, timestamp |-> process.timestamp, index |-> k]
LimitReached(limit, totalCount) ==
    [kind |-> "limit reached", limit |-> limit, total |-> totalCount]

(***************************************************************************)
(*                       reduceProcesses: the function                     *)
(***************************************************************************)

\* A count of the top-level processes only.
countProcesses_TopLevel(procs) == Len(procs)

RECURSIVE countProcesses(_)
\* const countProcesses = (procs) => ...: every node, at every depth.
countProcesses(procs) ==
    IF procs = <<>> THEN 0
    ELSE 1 + countProcesses(Head(procs).children) + countProcesses(Tail(procs))

RECURSIVE extractLoop_ChildrenUnbudgeted(_, _, _, _, _)
\* The loop with the children given the whole limit of their parent's level.
extractLoop_ChildrenUnbudgeted(procs, i, indent, remainingLimit, result) ==
    IF i > Len(procs) \/ Len(result) >= remainingLimit
    THEN result
    ELSE LET process == procs[i]
             own == result
                    \o [k \in 1..process.programs |-> ProgramLine(indent, process, k)]
                    \o [k \in 1..process.connections |-> ConnectionLine(indent, process, k)]
             all == own \o extractLoop_ChildrenUnbudgeted(process.children, 1, indent + 1,
                                                          remainingLimit, <<>>)
         IN extractLoop_ChildrenUnbudgeted(procs, i + 1, indent, remainingLimit, all)

RECURSIVE extractLoop(_, _, _, _, _)
\* The for loop of extractProcessTree from the i-th process on, `result`
\* holding the lines pushed so far. The limit is tested once per process,
\* before its lines are pushed; indent counts the "│  " prefixes.
extractLoop(procs, i, indent, remainingLimit, result) ==
    IF i > Len(procs) \/ Len(result) >= remainingLimit
    THEN result
    ELSE LET process == procs[i]
             own == result
                    \o [k \in 1..process.programs |-> ProgramLine(indent, process, k)]
                    \o [k \in 1..process.connections |-> ConnectionLine(indent, process, k)]
             all == own \o extractLoop(process.children, 1, indent + 1,
                                       remainingLimit - Len(own), <<>>)
         IN extractLoop(procs, i + 1, indent, remainingLimit, all)

\* const extractProcessTree = (procs, indent = "", remainingLimit) => ...
extractProcessTree(procs, indent, remainingLimit) ==
    extractLoop(procs, 1, indent, remainingLimit, <<>>)

\* function reduceProcesses(processes, limit)
reduceProcesses(processes, limit) ==
    IF Len(processes) = 0 \/ limit <= 0
    THEN <<>>
    ELSE LET tree == extractProcessTree(processes, 0, limit)
         IN IF Len(tree) >= limit
            THEN Append(tree, LimitReached(limit, countProcesses(processes)))
            ELSE tree

(***************************************************************************)
(*                        reduceProcesses: steps                           *)
(***************************************************************************)

\* No reduceProcesses call under way.
RpIdle ==
    /\ rpPc = "idle"
    /\ rpProcesses = <<>>
    /\ rpLimit = 0
    /\ rpTree = <<>>

\* A process list and a limit are given.
RpInit ==
    /\ rpPc = "ready"
    /\ rpProcesses \in ProcessLists
    /\ rpLimit \in Limits
    /\ rpTree = <<>>

\* reduceProcesses(processes, limit) is applied.
ReduceProcesses ==
    /\ rpPc = "ready"
    /\ rpTree' = reduceProcesses(rpProcesses, rpLimit)
    /\ rpPc' = "done"
    /\ UNCHANGED <<rpProcesses, rpLimit>>

(***************************************************************************)
(*          getContainersBaselines / getContainersProcessTrees: values     *)
(***************************************************************************)

\* Longest list of insights the list call answers with.
MaxEntries == 2

\* processes_limit: z.number().default(1000)
DefaultProcessesLimit == 1000

\* Container ids a caller asks for, listed in one order each (the code reads
\* the list through includes() and join() only).
ContainerIds == <<"c1", "c2", "c3">>
ContainerIdLists ==
    {SelectSeq(ContainerIds, LAMBDA c : c \in chosen) : chosen \in SUBSET {"c1", "c2", "c3"}}

\* Insight ids, by position in the list answer.
CriIds == <<"cri-1", "cri-2", "cri-3", "cri-4">>

\* summary.container_meta.container_id of an insight: one of the ids asked
\* for or not, or absent.
EntryContainerIds == {"c1", "c2", "c3", "c-other", Undefined}

\* What GET container_runtime_insights/{id} does for an insight: the request
\* fails, or the record lacks the sub-payload the caller reads (baseline,
\* ongoing.containers[0]), or the record has it.
DetailOutcomes == {"error", "absent", "present"}

\* An insight of the list answer, with what its detail request will do.
Insight(i, containerId, detail) ==
    [id |-> CriIds[i], container_id |-> containerId, detail |-> detail]

EntryLists ==
    UNION {{[i \in 1..n |-> Insight(i, f[i][1], f[i][2])] :
               f \in [1..n -> EntryContainerIds \X DetailOutcomes]} : n \in 0..MaxEntries}

\* Answers of the list call: without `entries`, or with a list of insights.
ListResponses ==
    {[hasEntries |-> FALSE, entries |-> <<>>]}
        \cup {[hasEntries |-> TRUE, entries |-> es] : es \in EntryLists}

\* The processes of the container of a detail record.
SampleProcesses ==
    <<ProcessNode(1, 2, 1, <<ProcessNode(11, 1, 0, <<>>)>>), ProcessNode(2, 1, 0, <<>>)>>

\* The detail record of an insight, as far as the callers read it.
DetailRecord(entry) ==
    [hasBaseline |-> entry.detail = "present",
     baseline |-> [baseline_of |-> entry.id],
     containers |-> IF entry.detail = "present"
                    THEN <<[id |-> entry.id, processes |-> SampleProcesses]>>
                    ELSE <<>>]

ListRequest(ids) == [call |-> "list", container_ids |-> ids]
DetailRequest(criId) == [call |-> "detail", container_ids |-> <<criId>>]

FailedFor(error, ids) == [kind |-> "error", error |-> error, container_ids |-> ids]

\* Mutant: the empty-list check forgotten.
NoContainerIds_Never(containerIds) == FALSE

\* if (containerIds.length === 0)
NoContainerIds(containerIds) == Len(containerIds) = 0

\* Mutant: the membership test forgotten.
SkipsEntry_PresenceOnly(variant, entry, containerIds) ==
    variant = "baselines" /\ entry.container_id = Undefined

\* Baselines: if (!containerId || !containerIds.includes(containerId)) continue;
\* the process-tree loop skips nothing.
SkipsEntry(variant, entry, containerIds) ==
    /\ variant = "baselines"
    /\ \/ entry.container_id = Undefined
       \/ \A k \in 1..Len(containerIds) : containerIds[k] # entry.container_id

RECURSIVE NextFetched(_, _, _, _)
\* The first entry from position i on that the loop fetches the details of,
\* Len(entries) + 1 when it reaches the end of the list.
NextFetched(variant, entries, i, containerIds) ==
    IF i > Len(entries) THEN i
    ELSE IF SkipsEntry(variant, entries[i], containerIds)
    THEN NextFetched(variant, entries, i + 1, containerIds)
    ELSE i

\* map[key] = value
Put(map, key, value) ==
    [k \in DOMAIN map \cup {key} |-> IF k = key THEN value ELSE map[k]]

\* The loop body after the detail record `data` of `entry` has arrived.
Collected(variant, map, entry, data, limit) ==
    IF variant = "baselines"
    THEN IF data.hasBaseline
         THEN Put(map, entry.container_id, data.baseline)
         ELSE map
    ELSE IF Len(data.containers) = 0
         THEN Put(map, entry.id, [empty |-> TRUE])
         ELSE Put(map, entry.id,
                  [data.containers[1] EXCEPT
                      !.processes = reduceProcesses(data.containers[1].processes, limit)])

\* After the loop: baselines fails on an empty map, process trees returns.
AfterLoop(variant, map, containerIds) ==
    IF variant = "baselines" /\ DOMAIN map = {}
    THEN FailedFor("No baselines found for any of the container_ids", containerIds)
    ELSE Returned(map)

(***************************************************************************)
(*          getContainersBaselines / getContainersProcessTrees: steps      *)
(***************************************************************************)

NoCris == [hasEntries |-> FALSE, entries |-> <<>>, pending |-> TRUE]
EmptyMap == [k \in {} |-> 0]

AgInit ==
    /\ agPc = "idle"
    /\ agVariant = "none"
    /\ agIds = <<>>
    /\ agLimit = DefaultProcessesLimit
    /\ agCris = NoCris
    /\ agIdx = 0
    /\ agMap = EmptyMap
    /\ agRequests = <<>>
    /\ agResult = NoResult

\* The start of either call: the empty check, then the list request.
AgCall(variant, containerIds, limit) ==
    /\ agPc = "idle"
    /\ agVariant' = variant
    /\ agIds' = containerIds
    /\ agLimit' = limit
    /\ IF NoContainerIds(containerIds)
       THEN /\ agPc' = "done"
            /\ agResult' = Failed("No container IDs provided")
            /\ agRequests' = agRequests
       ELSE /\ agPc' = "list"
            /\ agResult' = agResult
            /\ agRequests' = Append(agRequests, ListRequest(containerIds))
    /\ UNCHANGED <<agCris, agIdx, agMap>>

\* getContainersBaselines(client, containerIds)
GetContainersBaselines ==
    \E containerIds \in ContainerIdLists :
        AgCall("baselines", containerIds, DefaultProcessesLimit)

\* getContainersProcessTrees(client, containerIds, processesLimit)
GetContainersProcessTrees ==
    \E containerIds \in ContainerIdLists, limit \in {1, DefaultProcessesLimit} :
        AgCall("processTrees", containerIds, limit)

\* The list request fails, and the call with it.
ListFails ==
    /\ agPc = "list"
    /\ agPc' = "done"
    /\ agResult' = Failed("HTTP error")
    /\ UNCHANGED <<agVariant, agIds, agLimit, agCris, agIdx, agMap, agRequests>>

\* From position i of the entries on: the next detail request, or the end.
AgContinue(entries, i, map) ==
    LET j == NextFetched(agVariant, entries, i, agIds)
    IN /\ agIdx' = j
       /\ agMap' = map
       /\ IF j <= Len(entries)
          THEN /\ agPc' = "detail"
               /\ agRequests' = Append(agRequests, DetailRequest(entries[j].id))
               /\ agResult' = agResult
          ELSE /\ agPc' = "done"
               /\ agRequests' = agRequests
               /\ agResult' = AfterLoop(agVariant, map, agIds)

\* The list request returns `cris`. Baselines fails if it has no entries;
\* the process-tree loop iterates cris.entries unchecked, a TypeError when
\* it is absent. Otherwise the loop runs up to its first detail request.
ListReturns ==
    /\ agPc = "list"
    /\ \E cris \in ListResponses :
          /\ agCris' = cris
          /\ IF ~cris.hasEntries
             THEN /\ agPc' = "done"
                  /\ agResult' =
                        IF agVariant = "baselines"
                        THEN FailedFor("No process trees found for container_ids", agIds)
                        ELSE Failed("TypeError: cris.entries is not iterable")
                  /\ UNCHANGED <<agIdx, agMap, agRequests>>
             ELSE AgContinue(cris.entries, 1, agMap)
    /\ UNCHANGED <<agVariant, agIds, agLimit>>

\* The detail request of the current entry fails, and the call with it:
\* the await is in no try block.
DetailFails ==
    /\ agPc = "detail"
    /\ agCris.entries[agIdx].detail = "error"
    /\ agPc' = "done"
    /\ agResult' = Failed("HTTP error")
    /\ UNCHANGED <<agVariant, agIds, agLimit, agCris, agIdx, agMap, agRequests>>

\* The detail request of the current entry returns: the rest of the loop
\* body, then the loop up to the next detail request or its end.
DetailReturns ==
    /\ agPc = "detail"
    /\ agCris.entries[agIdx].detail # "error"
    /\ LET entry == agCris.entries[agIdx]
           map == Collected(agVariant, agMap, entry, DetailRecord(entry), agLimit)
       IN AgContinue(agCris.entries, agIdx + 1, map)
    /\ UNCHANGED <<agVariant, agIds, agLimit, agCris>>

(***************************************************************************)
(*                      buildRadQLQuery: values                            *)
(***************************************************************************)

\* A JavaScript string is modelled as the sequence of its characters.
Quote == "\""
DecimalDigits == <<"0", "1", "2", "3", "4", "5", "6", "7", "8", "9">>

\* value.includes(sub)
Includes(s, sub) ==
    \E k \in 0..(Len(s) - Len(sub)) : SubSeq(s, k + 1, k + Len(sub)) = sub

\* /^\d{4}-\d{2}-\d{2}/.test(value)
IsDigit(c) == \E d \in 1..Len(DecimalDigits) : DecimalDigits[d] = c
StartsWithDate(s) ==
    /\ Len(s) >= 10
    /\ \A k \in {1, 2, 3, 4, 6, 7, 9, 10} : IsDigit(s[k])
    /\ s[5] = "-"
    /\ s[8] = "-"

\* /[<>=!]/.test(value)
HasComparisonGlyph(s) == \E k \in 1..Len(s) : s[k] \in {"<", ">", "=", "!"}

RECURSIVE NatText(_)
\* String(n) for a natural number.
NatText(n) ==
    IF n < 10 THEN <<DecimalDigits[n + 1]>>
    ELSE NatText(n \div 10) \o <<DecimalDigits[(n % 10) + 1]>>

\* The three kinds of z.union([z.string(), z.number(), z.boolean()]).
StringValue(s) == [type |-> "string", str |-> s]
NumberValue(n) == [type |-> "number", num |-> n]
BooleanValue(b) == [type |-> "boolean", bool |-> b]

\* String(value), which is also what a template literal interpolates.
ValueText(value) ==
    CASE value.type = "string" -> value.str
      [] value.type = "number" ->
            IF value.num < 0 THEN <<"-">> \o NatText(-value.num)
            ELSE NatText(value.num)
      [] value.type = "boolean" ->
            IF value.bool THEN <<"t", "r", "u", "e">>
            ELSE <<"f", "a", "l", "s", "e">>

\* The characters of the words of the schema's enumerations.
EnumText(word) ==
    CASE word = ":" -> <<":">>
      [] word = "=" -> <<"=">>
      [] word = "!=" -> <<"!", "=">>
      [] word = "!:" -> <<"!", ":">>
      [] word = "<>" -> <<"<", ">">>
      [] word = ">" -> <<">">>
      [] word = ">=" -> <<">", "=">>
      [] word = "<" -> <<"<">>
      [] word = "<=" -> <<"<", "=">>
      [] word = "AND" -> <<"A", "N", "D">>
      [] word = "OR" -> <<"O", "R">>
      [] word = "count" -> <<"c", "o", "u", "n", "t">>
      [] word = "sum" -> <<"s", "u", "m">>
      [] word = "avg" -> <<"a", "v", "g">>
      [] word = "min" -> <<"m", "i", "n">>
      [] word = "max" -> <<"m", "a", "x">>
      [] word = "median" -> <<"m", "e", "d", "i", "a", "n">>
      [] word = "second" -> <<"s", "e", "c", "o", "n", "d">>
      [] word = "minute" -> <<"m", "i", "n", "u", "t", "e">>
      [] word = "hour" -> <<"h", "o", "u", "r">>
      [] word = "day" -> <<"d", "a", "y">>
      [] word = "month" -> <<"m", "o", "n", "t", "h">>
      [] word = "year" -> <<"y", "e", "a", "r">>

ComparisonOperators == {":", "=", "!=", "!:", "<>", ">", ">=", "<", "<="}
WildcardOperators == {"contains", "starts_with", "ends_with"}
Operators == ComparisonOperators \cup WildcardOperators
Aggregations == {"count", "sum", "avg", "min", "max", "median"}
TimeGroups == {"second", "minute", "hour", "day", "month", "year"}

\* Field names.
image_name == <<"i", "m", "a", "g", "e", "_", "n", "a", "m", "e">>
severity == <<"s", "e", "v", "e", "r", "i", "t", "y">>
created_at == <<"c", "r", "e", "a", "t", "e", "d", "_", "a", "t">>
timestamp == <<"t", "i", "m", "e", "s", "t", "a", "m", "p">>
runtime == <<"r", "u", "n", "t", "i", "m", "e">>
cpu == <<"c", "p", "u">>

\* String values: every string of at most MaxValueLen characters over
\* ValueChars, and three longer ones.
MaxValueLen == 2
ValueChars == {"a", "1", " ", "-", ":", "(", ")", "<", ">", "=", "!"}
ShortStrings == UNION {[1..n -> ValueChars] : n \in 0..MaxValueLen}
nginx == <<"n", "g", "i", "n", "x">>
abc_123_def == <<"a", "b", "c", "-", "1", "2", "3", "-", "d", "e", "f">>
date_2024_01_01 == <<"2", "0", "2", "4", "-", "0", "1", "-", "0", "1">>
digits_20240101 == <<"2", "0", "2", "4", "0", "1", "0", "1", "0", "0">>
LongStrings == {nginx, abc_123_def, date_2024_01_01, digits_20240101}

ConditionValues ==
    {StringValue(s) : s \in ShortStrings \cup LongStrings}
        \cup {NumberValue(n) : n \in {0, 42, -7}}
        \cup {BooleanValue(b) : b \in BOOLEAN}

\* One element of `conditions`; negate is "absent", "true" or "false".
Condition(field, operator, value, negate) ==
    [field |-> field, operator |-> operator, value |-> value, negate |-> negate]

Conditions ==
    {Condition(image_name, op, v, n) :
        op \in Operators, v \in ConditionValues, n \in {"absent", "true", "false"}}

SampleConditions ==
    {Condition(image_name, "contains", StringValue(nginx), "absent"),
     Condition(severity, "=", StringValue(abc_123_def), "true"),
     Condition(severity, ">=", NumberValue(42), "false"),
     Condition(created_at, "starts_with", StringValue(date_2024_01_01), "absent")}

\* An optional property: absent, or present with a value.
Absent == [present |-> FALSE]
Present(value) == [present |-> TRUE, value |-> value]

\* The tool arguments before RadQLQueryBuilderSchema has parsed them.
BuilderInput(conditions, logic, aggregation, aggregate_field, group_by, time_group) ==
    [conditions |-> conditions, logic |-> logic, aggregation |-> aggregation,
     aggregate_field |-> aggregate_field, group_by |-> group_by,
     time_group |-> time_group]

\* Inputs that exercise the filter part: any single condition, or a pair of
\* sample conditions under each combinator.
FilterInputs ==
    {BuilderInput(Present(<<c>>), "absent", "absent", Absent, Absent, "absent") :
        c \in Conditions}
    \cup {BuilderInput(Present(<<c, d>>), logic, "absent", Absent, Absent, "absent") :
            c \in SampleConditions, d \in SampleConditions,
            logic \in {"absent", "AND", "OR"}}

GroupNames == {created_at, timestamp, runtime, severity}
GroupLists ==
    {<<>>} \cup {<<g>> : g \in GroupNames}
           \cup {<<g, h>> : g \in GroupNames, h \in GroupNames}

\* Inputs that exercise the aggregation part.
StatsInputs ==
    {BuilderInput(conditions, "absent", aggregation, aggregate_field, group_by,
                  time_group) :
        conditions \in {Absent, Present(<<>>),
                        Present(<<Condition(image_name, "contains",
                                            StringValue(nginx), "absent")>>)},
        aggregation \in Aggregations \cup {"absent"},
        aggregate_field \in {Absent, Present(<<>>), Present(cpu)},
        group_by \in {Absent} \cup {Present(g) : g \in GroupLists},
        time_group \in {"absent", "day", "hour"}}

BuilderInputs == FilterInputs \cup StatsInputs

(***************************************************************************)
(*                      buildRadQLQuery: the function                      *)
(***************************************************************************)

\* RadQLQueryBuilderSchema.parse: logic defaults to "AND".
ParseBuilderArgs(input) ==
    [input EXCEPT !.logic = IF input.logic = "absent" THEN "AND" ELSE input.logic]

\* needsQuoting of the contains / starts_with / ends_with branches.
WildcardNeedsQuoting(value) ==
    /\ value.type = "string"
    /\ \/ Includes(value.str, <<"-">>)
       \/ Includes(value.str, <<" ">>)
       \/ Includes(value.str, <<":">>)

\* needsQuoting of the branch of the other operators, for a string.
NeedsQuoting(str) ==
    \/ Includes(str, <<" ">>)
    \/ Includes(str, <<"-">>)
    \/ Includes(str, <<":">>)
    \/ Includes(str, <<"(">>)
    \/ Includes(str, <<")">>)
    \/ StartsWithDate(str)
    \/ HasComparisonGlyph(str)

Quoted(text) == <<Quote>> \o text \o <<Quote>>

\* `*${cond.value}*`, `${cond.value}*`, `*${cond.value}`
WildcardText(operator, text) ==
    CASE operator = "contains" -> <<"*">> \o text \o <<"*">>
      [] operator = "starts_with" -> text \o <<"*">>
      [] operator = "ends_with" -> <<"*">> \o text

\* The callback of args.conditions.map.
RenderCondition(cond) ==
    LET negation == IF cond.negate = "true" THEN <<"N", "O", "T", " ">> ELSE <<>>
        query == negation \o cond.field
    IN IF cond.operator \in WildcardOperators
       THEN LET wild == WildcardText(cond.operator, ValueText(cond.value))
                valueStr == IF WildcardNeedsQuoting(cond.value)
                            THEN Quoted(wild) ELSE wild
            IN query \o <<":">> \o valueStr
       ELSE LET valueStr == IF cond.value.type = "string"
                            THEN IF NeedsQuoting(cond.value.str)
                                 THEN Quoted(cond.value.str)
                                 ELSE cond.value.str
                            ELSE ValueText(cond.value)
            IN query \o EnumText(cond.operator) \o valueStr

\* Mutant: the pieces joined in reverse order.
RECURSIVE Join_Reversed(_, _)
Join_Reversed(pieces, separator) ==
    IF pieces = <<>> THEN <<>>
    ELSE IF Len(pieces) = 1 THEN pieces[1]
    ELSE Join_Reversed(Tail(pieces), separator) \o separator \o pieces[1]

RECURSIVE Join(_, _)
\* Array.prototype.join
Join(pieces, separator) ==
    IF pieces = <<>> THEN <<>>
    ELSE IF Len(pieces) = 1 THEN pieces[1]
    ELSE pieces[1] \o separator \o Join(Tail(pieces), separator)

\* Mutant: only the names containing "_at" taken for time fields.
IsTimeField_OnlyAt(field) == Includes(field, <<"_", "a", "t">>)

\* field.includes("_at") || field.includes("timestamp") || field.includes("time")
IsTimeField(field) ==
    \/ Includes(field, <<"_", "a", "t">>)
    \/ Includes(field, timestamp)
    \/ Includes(field, <<"t", "i", "m", "e">>)

\* The callback of args.group_by.map.
RenderGroup(args, field) ==
    IF args.time_group # "absent" /\ IsTimeField(field)
    THEN EnumText(args.time_group) \o <<"(">> \o field \o <<")">>
    ELSE field

\* A property that is absent or holds the empty string or the empty list.
Falsy(property) == ~property.present \/ property.value = <<>>

\* The filters_query property of the result.
FiltersQuery(args) ==
    IF ~Falsy(args.conditions)
    THEN Present(Join([k \in 1..Len(args.conditions.value) |->
                          RenderCondition(args.conditions.value[k])],
                      <<" ">> \o EnumText(args.logic) \o <<" ">>))
    ELSE Absent

\* `${args.aggregation} requires an aggregate_field`
RequiresAggregateField(aggregation) ==
    Failed([function |-> aggregation, text |-> "requires an aggregate_field"])

\* The statsQuery local once built.
StatsQuery(args) ==
    LET field == IF Falsy(args.aggregate_field) THEN <<>> ELSE args.aggregate_field.value
        call == EnumText(args.aggregation) \o <<"(">> \o field \o <<")">>
    IN IF Falsy(args.group_by) THEN call
       ELSE call \o <<" ", "b", "y", " ">>
                 \o Join([k \in 1..Len(args.group_by.value) |->
                             RenderGroup(args, args.group_by.value[k])],
                         <<",", " ">>)

\* export function buildRadQLQuery(args)
buildRadQLQuery(args) ==
    IF args.aggregation = "absent"
    THEN Returned([filters_query |-> FiltersQuery(args), stats_query |-> Absent])
    ELSE IF args.aggregation # "count" /\ Falsy(args.aggregate_field)
    THEN RequiresAggregateField(args.aggregation)
    ELSE Returned([filters_query |-> FiltersQuery(args),
                   stats_query |-> Present(StatsQuery(args))])

(***************************************************************************)
(*                      buildRadQLQuery: steps                             *)
(***************************************************************************)

\* No buildRadQLQuery call under way.
BdIdle ==
    /\ bdPc = "idle"
    /\ bdInput = BuilderInput(Absent, "absent", "absent", Absent, Absent, "absent")
    /\ bdArgs = Absent
    /\ bdResult = NoResult

\* Tool arguments are given.
BdInit ==
    /\ bdPc = "ready"
    /\ bdInput \in BuilderInputs
    /\ bdArgs = Absent
    /\ bdResult = NoResult

\* The arguments are parsed and buildRadQLQuery(args) is applied.
BuildRadQLQuery ==
    /\ bdPc = "ready"
    /\ bdArgs' = ParseBuilderArgs(bdInput)
    /\ bdResult' = buildRadQLQuery(bdArgs')
    /\ bdPc' = "done"
    /\ UNCHANGED bdInput

(***************************************************************************)
(*               handleRadQLError / executeRadQLQuery: values              *)
(***************************************************************************)

\* What the enricher looks for in a message. The pattern
\* /unexpected token.*"-\d+"/ matches only a message that includes
\* "unexpected token", and "unknown field" includes "field".
Phrases ==
    {"unexpected token", "unexpected token -digits", "invalid query",
     "unknown field", "field", "not found"}
PhraseSets ==
    {ps \in SUBSET Phrases :
        /\ "unexpected token -digits" \in ps => "unexpected token" \in ps
        /\ "unknown field" \in ps => "field" \in ps}

\* A message text: what it says, and the phrases found in it.
Message(text, phrases) == [text |-> text, phrases |-> phrases]

\* originalMsg.includes(phrase)
MessageIncludes(message, phrase) == phrase \in message.phrases

\* An error value: its message (absent when empty) and its `response`
\* property, which carries the HTTP status for the clients that set one.
ErrorObject(message, response) == [message |-> message, response |-> response]
Response(status, dataMessage) == [status |-> status, data_message |-> dataMessage]

\* new Error(text)
NewError(message) == ErrorObject(Present(message), Absent)

HttpStatuses == {400, 401, 403, 404, 500}
DataTypes == {"containers", "finding_groups", "inbox_items", "pods"}

\* Error values handed to handleRadQLError.
ErrorObjects ==
    {ErrorObject(message, response) :
        message \in {Absent} \cup {Present(Message("api error", ps)) : ps \in PhraseSets},
        response \in {Absent}
            \cup {Present(Response(status, dataMessage)) :
                    status \in HttpStatuses,
                    dataMessage \in {Absent,
                                     Present(Message("api error body", {"invalid query"}))}}}

(***************************************************************************)
(*                      handleRadQLError: the function                     *)
(***************************************************************************)

\* error.message || error.response?.data?.message || String(error)
OriginalMsg(error) ==
    IF error.message.present THEN error.message.value
    ELSE IF error.response.present /\ error.response.value.data_message.present
    THEN error.response.value.data_message.value
    ELSE Message("Error", {})

\* error.response?.status, 0 standing for undefined.
ResponseStatus(error) ==
    IF error.response.present THEN error.response.value.status ELSE 0

\* The "Common ... fields" paragraph of the parser branch, written for three
\* data types: its "Filterable" line (the only line for inbox_items).
CommonFields(dataType) ==
    CASE dataType = "containers" -> "name, image_name, image_repo, owner_kind"
      [] dataType = "finding_groups" ->
            "type, severity, source_kind, source_name, rule_title"
      [] dataType = "inbox_items" ->
            "severity (High|Medium|Low), type, title, archived, false_positive, created_at"
      [] OTHER -> "none"

\* The "Common ... fields (quick reference)" paragraph of the unknown-field
\* branch: its "Filterable" line (the only line for inbox_items).
QuickReference(dataType) ==
    CASE dataType = "containers" -> "name, image_name, image_repo, owner_kind"
      [] dataType = "finding_groups" ->
            "type, source_kind, source_name, source_namespace, rule_title"
      [] dataType = "inbox_items" ->
            "severity (High|Medium|Low), type, title, archived, false_positive, created_at"
      [] OTHER -> "none"

\* The message of an enriched error.
Guidance(title, issue, names, common, original) ==
    [title |-> title, issue |-> issue, data_type |-> names, common |-> common,
     original |-> original]

\* The branch for status 400.
SyntaxGuidance(originalMsg, dataType) ==
    IF \/ MessageIncludes(originalMsg, "unexpected token")
       \/ MessageIncludes(originalMsg, "invalid query")
    THEN IF MessageIncludes(originalMsg, "unexpected token -digits")
         THEN Guidance("RadQL Parser Error",
                       "Unquoted date or hyphenated value detected",
                       "none", "none", Present(originalMsg))
         ELSE IF \/ MessageIncludes(originalMsg, "unknown field")
                 \/ MessageIncludes(originalMsg, "not found")
         THEN Guidance("RadQL Parser Error",
                       "Unknown or misspelled field name",
                       IF dataType = Undefined THEN "your_type" ELSE dataType,
                       CommonFields(dataType), Present(originalMsg))
         ELSE Guidance("RadQL Parser Error", "Invalid query syntax",
                       dataType, "none", Present(originalMsg))
    ELSE IF \/ MessageIncludes(originalMsg, "unknown field")
            \/ /\ MessageIncludes(originalMsg, "field")
               /\ MessageIncludes(originalMsg, "not found")
    THEN Guidance("Unknown Field Error", "none", dataType,
                  QuickReference(dataType), Present(originalMsg))
    ELSE Guidance("Invalid RadQL query syntax", "none", dataType, "none",
                  Present(originalMsg))

\* Mutant: the 403 branch answering like the 401 branch.
AccessDenied_AsAuthentication(dataType) ==
    Guidance("Authentication failed", "none", "none", "none", Absent)

\* The messages of the 404, 401 and 403 branches.
DataTypeNotFound(dataType) ==
    Guidance("Data type not found", "none", dataType, "none", Absent)
AuthenticationFailed ==
    Guidance("Authentication failed", "none", "none", "none", Absent)
AccessDenied(dataType) ==
    Guidance("Access denied to data type", "none", dataType, "none", Absent)

\* function handleRadQLError(error, dataType)
handleRadQLError(error, dataType) ==
    LET status == ResponseStatus(error)
    IN CASE status = 400 -> NewError(SyntaxGuidance(OriginalMsg(error), dataType))
         [] status = 404 -> NewError(DataTypeNotFound(dataType))
         [] status = 401 -> NewError(AuthenticationFailed)
         [] status = 403 -> NewError(AccessDenied(dataType))
         [] OTHER -> error

\* No handleRadQLError call under way.
HeIdle ==
    /\ hePc = "idle"
    /\ heError = ErrorObject(Absent, Absent)
    /\ heDataType = Undefined
    /\ heResult = NoResult

\* An error value and a data type are given.
HeInit ==
    /\ hePc = "ready"
    /\ heError \in ErrorObjects
    /\ heDataType \in DataTypes \cup {Undefined}
    /\ heResult = NoResult

\* handleRadQLError(error, dataType) is applied.
HandleRadQLError ==
    /\ hePc = "ready"
    /\ heResult' = Returned(handleRadQLError(heError, heDataType))
    /\ hePc' = "done"
    /\ UNCHANGED <<heError, heDataType>>

(***************************************************************************)
(*                       executeRadQLQuery: steps                          *)
(***************************************************************************)

\* The arguments of one query.
QueryArgs ==
    {[operation |-> operation, data_type |-> data_type, id |-> id,
      stats_query |-> stats_query] :
        operation \in {"list", "get_by_id", "stats"},
        data_type \in DataTypes,
        id \in {Absent, Present("item-1")},
        stats_query \in {Absent, Present("count()")}}

\* What the API writes in the body of a failed request.
ResponseBodies(status) ==
    IF status = 400
    THEN {{}, {"invalid query"}, {"unknown field", "field"},
          {"unexpected token", "unexpected token -digits"}}
    ELSE {{}}

\* makeRequest: throw new Error(`HTTP error! status: ${response.status}
\* error: ${JSON.stringify(responseBody, null, 2)}`)
HttpError(status, body) ==
    NewError([text |-> "HTTP error! status", status |-> status, phrases |-> body])

\* getToken: throw new Error(`Error getting authentication token: ${error}`)
TokenError == NewError(Message("Error getting authentication token", {}))

\* The check made before the request, per operation.
MissingArgument(args) ==
    CASE args.operation = "get_by_id" /\ ~args.id.present ->
            Present(NewError(Message("id is required for get_by_id operation", {})))
      [] args.operation = "stats" /\ ~args.stats_query.present ->
            Present(NewError(Message("stats_query is required for stats operation", {})))
      [] OTHER -> Absent

\* The catch block: throw handleRadQLError(error, data_type)
Rethrown(error, args) == Failed(handleRadQLError(error, args.data_type))

EqInit ==
    /\ eqPc = "idle"
    /\ eqArgs = Absent
    /\ eqStatus = 0
    /\ eqResult = NoResult

\* executeRadQLQuery(client, args) up to the await of the request.
ExecuteRadQLQuery ==
    /\ eqPc = "idle"
    /\ \E args \in QueryArgs :
          /\ eqArgs' = Present(args)
          /\ IF MissingArgument(args).present
             THEN /\ eqPc' = "done"
                  /\ eqResult' = Rethrown(MissingArgument(args).value, args)
             ELSE /\ eqPc' = "awaiting"
                  /\ eqResult' = eqResult
    /\ UNCHANGED eqStatus

\* getToken fails: no request is sent.
TokenFails ==
    /\ eqPc = "awaiting"
    /\ eqPc' = "done"
    /\ eqResult' = Rethrown(TokenError, eqArgs.value)
    /\ UNCHANGED <<eqArgs, eqStatus>>

\* The API answers with a success status.
RequestReturns ==
    /\ eqPc = "awaiting"
    /\ eqPc' = "done"
    /\ eqStatus' = 200
    /\ eqResult' = Returned([operation |-> eqArgs.value.operation,
                             data_type |-> eqArgs.value.data_type])
    /\ UNCHANGED eqArgs

\* The API answers with a non-success status: makeRequest throws.
RequestFails ==
    /\ eqPc = "awaiting"
    /\ \E status \in HttpStatuses :
          \E body \in ResponseBodies(status) :
              /\ eqStatus' = status
              /\ eqResult' = Rethrown(HttpError(status, body), eqArgs.value)
    /\ eqPc' = "done"
    /\ UNCHANGED eqArgs

(***************************************************************************)
(*                 MCP server (index.ts): toolkit filters                  *)
(***************************************************************************)

\* Three of the toolkits, with their tools in the order of the tool list.
ToolkitTypes == <<"containers", "workflows", "knowledge_base">>
ToolsOf(toolkit) ==
    CASE toolkit = "containers" -> <<"list_containers", "get_container_details">>
      [] toolkit = "workflows" ->
            <<"list_workflow_runs", "get_workflow_run", "run_workflow",
              "list_workflow_schedules">>
      [] toolkit = "knowledge_base" -> <<"search_knowledge_base">>

\* The elements of a list.
Elements(list) == {list[k] : k \in 1..Len(list)}

\* The tool names the switch of the call-tool handler has a case for.
ToolNames == UNION {Elements(ToolsOf(ToolkitTypes[k])) : k \in 1..Len(ToolkitTypes)}

\* An environment variable is absent or holds comma-separated items; an item
\* is a name, possibly empty, possibly surrounded by blanks.
EnvItem(name, padded) == [name |-> name, padded |-> padded]
EnvItems ==
    {EnvItem("containers", FALSE), EnvItem("workflows", FALSE),
     EnvItem("workflows", TRUE), EnvItem("", FALSE), EnvItem("", TRUE)}
EnvValues ==
    {Absent} \cup {Present(<<a>>) : a \in EnvItems}
             \cup {Present(<<a, b>>) : a \in EnvItems, b \in EnvItems}

\* Truthiness of process.env.X: absent and the empty string are falsy.
EnvSet(env) == env.present /\ env.value # <<EnvItem("", FALSE)>>

\* env.split(',').map(s => s.trim())
SplitAndTrim(env) == [k \in 1..Len(env.value) |-> env.value[k].name]

\* function parseToolkitFilters()
parseToolkitFilters(includeEnv, excludeEnv) ==
    [include |-> IF EnvSet(includeEnv) THEN Present(SplitAndTrim(includeEnv))
                 ELSE Absent,
     exclude |-> IF EnvSet(excludeEnv) THEN Present(SplitAndTrim(excludeEnv))
                 ELSE Absent]

\* Mutant: the exclude list looked at before the include list.
isToolkitEnabled_ExcludeFirst(toolkitType, filters) ==
    IF filters.exclude.present /\ Len(filters.exclude.value) > 0
    THEN toolkitType \notin Elements(filters.exclude.value)
    ELSE IF filters.include.present /\ Len(filters.include.value) > 0
    THEN toolkitType \in Elements(filters.include.value)
    ELSE TRUE

\* function isToolkitEnabled(toolkitType, filters)
isToolkitEnabled(toolkitType, filters) ==
    IF filters.include.present /\ Len(filters.include.value) > 0
    THEN toolkitType \in Elements(filters.include.value)
    ELSE IF filters.exclude.present /\ Len(filters.exclude.value) > 0
    THEN toolkitType \notin Elements(filters.exclude.value)
    ELSE TRUE

RECURSIVE AllTools(_, _)
\* const allTools = [...(isToolkitEnabled(...) ? [...] : []), ...]
AllTools(k, filters) ==
    IF k > Len(ToolkitTypes) THEN <<>>
    ELSE (IF isToolkitEnabled(ToolkitTypes[k], filters)
          THEN ToolsOf(ToolkitTypes[k]) ELSE <<>>)
         \o AllTools(k + 1, filters)

(***************************************************************************)
(*                 MCP server (index.ts): request handlers                 *)
(***************************************************************************)

NoRequest == [kind |-> "none"]
ListToolsRequest == [kind |-> "tools/list"]
\* arguments: "absent", "invalid" (rejected by the tool's schema) or "valid".
CallToolRequest(name, arguments) ==
    [kind |-> "tools/call", name |-> name, arguments |-> arguments]

\* What an operation can throw: an Error, or a value that is not an Error.
Thrown(isError, text) == [isError |-> isError, text |-> text]

\* The results of the two handlers.
ToolList(tools) == [kind |-> "result", tools |-> tools]
Content(json) == [kind |-> "result", content |-> <<[type |-> "text", json |-> json]>>]

\* Mutant: a thrown value that is not an Error thrown on.
CaughtReply_ErrorsOnly(thrown) ==
    IF thrown.isError THEN Content([error |-> thrown.text])
    ELSE [kind |-> "rejected", reason |-> thrown.text]

\* The catch block of the call-tool handler:
\* error instanceof Error ? error.message : String(error)
CaughtReply(thrown) == Content([error |-> thrown.text])

\* No server started.
SvIdle ==
    /\ svPc = "off"
    /\ svInclude = Absent
    /\ svExclude = Absent
    /\ svFilters = parseToolkitFilters(Absent, Absent)
    /\ svRequest = NoRequest
    /\ svOperation = "none"
    /\ svReply = NoResult

\* The process is started with some environment.
SvInit ==
    /\ svPc = "starting"
    /\ svInclude \in EnvValues
    /\ svExclude \in EnvValues
    /\ svFilters = parseToolkitFilters(Absent, Absent)
    /\ svRequest = NoRequest
    /\ svOperation = "none"
    /\ svReply = NoResult

\* main() fails before the server is connected (transport type or
\* credentials): process.exit(1).
MainFails ==
    /\ svPc = "starting"
    /\ svPc' = "exited"
    /\ UNCHANGED <<svInclude, svExclude, svFilters, svRequest, svOperation, svReply>>

\* newServer(): the filters are read once, the handlers are registered.
NewServer ==
    /\ svPc = "starting"
    /\ svFilters' = parseToolkitFilters(svInclude, svExclude)
    /\ svPc' = "serving"
    /\ UNCHANGED <<svInclude, svExclude, svRequest, svOperation, svReply>>

\* The list-tools handler.
ListTools ==
    /\ svPc = "serving"
    /\ svRequest' = ListToolsRequest
    /\ svOperation' = "none"
    /\ svReply' = ToolList(AllTools(1, svFilters))
    /\ UNCHANGED <<svPc, svInclude, svExclude, svFilters>>

\* The call-tool handler up to the await of the operation.
CallTool ==
    /\ svPc = "serving"
    /\ \E name \in ToolNames \cup {"no_such_tool"},
          arguments \in {"absent", "invalid", "valid"} :
          /\ svRequest' = CallToolRequest(name, arguments)
          /\ IF arguments = "absent"
             THEN /\ svReply' = CaughtReply(Thrown(TRUE, "Arguments are required"))
                  /\ UNCHANGED svPc
                  /\ svOperation' = "none"
             ELSE IF name \notin ToolNames
             THEN /\ svReply' = CaughtReply(Thrown(TRUE, "Unknown tool"))
                  /\ UNCHANGED svPc
                  /\ svOperation' = "none"
             ELSE IF arguments = "invalid"
             THEN /\ svReply' = CaughtReply(Thrown(TRUE, "ZodError"))
                  /\ UNCHANGED svPc
                  /\ svOperation' = "none"
             ELSE /\ svReply' = NoResult
                  /\ svPc' = "awaiting"
                  /\ svOperation' = name
    /\ UNCHANGED <<svInclude, svExclude, svFilters>>

\* The operation returns its response.
OperationReturns ==
    /\ svPc = "awaiting"
    /\ svReply' = Content([response |-> svOperation])
    /\ svPc' = "serving"
    /\ UNCHANGED <<svInclude, svExclude, svFilters, svRequest, svOperation>>

\* The operation throws.
OperationThrows ==
    /\ svPc = "awaiting"
    /\ \E thrown \in {Thrown(TRUE, "HTTP error! status: 500"),
                      Thrown(FALSE, "a value that is not an Error")} :
          svReply' = CaughtReply(thrown)
    /\ svPc' = "serving"
    /\ UNCHANGED <<svInclude, svExclude, svFilters, svRequest, svOperation>>

(***************************************************************************)
(*          explainRadQLQuery / explainStatsQuery: the functions           *)
(***************************************************************************)

\* Most tokens a sampled filter query is made of.
MaxTokens == 2

\* Pieces of filter-query text: the patterns the explainer looks for, their
\* near misses (AND without blanks) and plain text.
FilterTokens ==
    {"a", ":", "*", ">", "<", "(", ")", " AND ", " OR ", "NOT ", "AND", " "}

RECURSIVE TokenTexts(_)
\* The texts of at most n tokens; the empty string is the text of none.
TokenTexts(n) ==
    IF n = 0 THEN {""}
    ELSE TokenTexts(n - 1)
         \cup {text \o token : text \in TokenTexts(n - 1), token \in FilterTokens}

\* Filter queries: the token texts and some longer queries.
FilterQueries ==
    TokenTexts(MaxTokens)
    \cup {"a:b AND c:d", "(NOT a:b* AND c>d) OR e<f", "name:nginx AND (", "and or not"}

\* Stats queries; getDataStats is reached with a non-empty one only.
StatsQueries ==
    {"count()", "count() by severity", "avg(cpu) by hour(created_at)",
     "sum(x), min(x), max(x), median(x)", "count() by year(t), second(t)",
     "by", "count( by ("}

\* !query, for a string or undefined
Falsy_Query(query) == ~query.present \/ query.value = ""

\* if (cond) explanations.push(text)
Pushed(cond, text) == IF cond THEN <<text>> ELSE <<>>

\* Mutant: the OR clause pushed before the AND clause.
FilterExplanations_OrFirst(query) ==
    Pushed(Includes(query, " OR "), "Any condition can be true")
    \o Pushed(Includes(query, " AND "), "All conditions must be true")
    \o Pushed(Includes(query, "NOT "), "Excluding items matching certain conditions")
    \o Pushed(Includes(query, ":"), "Filtering by exact field values")
    \o Pushed(Includes(query, "*"), "Using wildcard pattern matching")
    \o Pushed(Includes(query, ">") \/ Includes(query, "<"),
              "Comparing numeric or date values")
    \o Pushed(Includes(query, "(") /\ Includes(query, ")"), "Using grouped conditions")

\* The local `explanations` of explainRadQLQuery after its seven tests.
FilterExplanations(query) ==
    Pushed(Includes(query, " AND "), "All conditions must be true")
    \o Pushed(Includes(query, " OR "), "Any condition can be true")
    \o Pushed(Includes(query, "NOT "), "Excluding items matching certain conditions")
    \o Pushed(Includes(query, ":"), "Filtering by exact field values")
    \o Pushed(Includes(query, "*"), "Using wildcard pattern matching")
    \o Pushed(Includes(query, ">") \/ Includes(query, "<"),
              "Comparing numeric or date values")
    \o Pushed(Includes(query, "(") /\ Includes(query, ")"), "Using grouped conditions")

\* function explainRadQLQuery(query: string | undefined): string
explainRadQLQuery(query) ==
    IF Falsy_Query(query) THEN "No filters applied - returning all items"
    ELSE LET explanations == FilterExplanations(query.value)
         IN IF Len(explanations) > 0 THEN Join(explanations, "; ")
            ELSE "Applying custom filter conditions"

\* const timeGroups = [...], each without its "(".
StatsTimeGroups == <<"second", "minute", "hour", "day", "month", "year">>

RECURSIVE TimeGroupLoop(_, _)
\* for (const timeGroup of timeGroups) { if (...) { push; break; } }
TimeGroupLoop(query, k) ==
    IF k > Len(StatsTimeGroups) THEN <<>>
    ELSE IF Includes(query, StatsTimeGroups[k] \o "(")
    THEN <<"Grouping by " \o StatsTimeGroups[k] \o " intervals">>
    ELSE TimeGroupLoop(query, k + 1)

\* The local `explanations` of explainStatsQuery.
StatsExplanations(query) ==
    Pushed(Includes(query, "count("), "Counting items")
    \o Pushed(Includes(query, "sum("), "Summing numeric values")
    \o Pushed(Includes(query, "avg("), "Calculating average values")
    \o Pushed(Includes(query, "min("), "Finding minimum values")
    \o Pushed(Includes(query, "max("), "Finding maximum values")
    \o Pushed(Includes(query, "median("), "Calculating median values")
    \o Pushed(Includes(query, " by "), "Grouping results by specified fields")
    \o TimeGroupLoop(query, 1)

\* function explainStatsQuery(query: string | undefined): string
explainStatsQuery(query) ==
    IF Falsy_Query(query) THEN "No aggregation specified"
    ELSE LET explanations == StatsExplanations(query.value)
         IN IF Len(explanations) > 0 THEN Join(explanations, "; ")
            ELSE "Applying aggregation functions"

(***************************************************************************)
(*                  listDataItems / getDataStats: steps                    *)
(***************************************************************************)

\* The argument `params`: the tool arguments without operation and
\* data_type, limit and offset filled in by the schema.
Params(filters_query, stats_query, offset) ==
    [filters_query |-> filters_query, stats_query |-> stats_query,
     limit |-> 20, offset |-> offset]

\* What the API answers: a body without the optional properties, or with.
DataResponses ==
    {[total_count |-> Absent, items |-> Absent, fields |-> Absent,
      has_more |-> Absent],
     [total_count |-> Present(2), items |-> Present(<<"item-1", "item-2">>),
      fields |-> Present(<<"name">>), has_more |-> Present(TRUE)]}

\* x || fallback, for an optional property
OrElse(x, fallback) == IF x.present THEN x.value ELSE fallback

\* if (params.filters_query) queryParams.filters_query = params.filters_query
SentFiltersQuery(params) ==
    IF Falsy_Query(params.filters_query) THEN Absent ELSE params.filters_query

\* Mutant: the filter echoed as it was given, without the "none" default.
AppliedFilters_AsGiven(params) ==
    IF params.filters_query.present THEN params.filters_query.value ELSE "none"

\* params.filters_query || "none"
AppliedFilters(params) ==
    IF Falsy_Query(params.filters_query) THEN "none" ELSE params.filters_query.value

\* The queryParams of listDataItems (include_relations is not given).
ListQueryParams(params) ==
    [limit |-> Present(params.limit), offset |-> Present(params.offset),
     filters_query |-> SentFiltersQuery(params), stats_query |-> Absent]

\* The queryParams of getDataStats: limit and offset are sent when truthy.
StatsQueryParams(params) ==
    [limit |-> IF params.limit # 0 THEN Present(params.limit) ELSE Absent,
     offset |-> IF params.offset # 0 THEN Present(params.offset) ELSE Absent,
     filters_query |-> SentFiltersQuery(params),
     stats_query |-> params.stats_query]

\* The value listDataItems returns.
ListResult(params, response) ==
    [query_explanation |-> explainRadQLQuery(params.filters_query),
     total_count |-> OrElse(response.total_count, 0),
     returned_count |-> Len(OrElse(response.items, <<>>)),
     data |-> OrElse(response.items, <<>>),
     fields |-> OrElse(response.fields, <<>>),
     applied_filters |-> AppliedFilters(params),
     pagination |-> [limit |-> params.limit, offset |-> params.offset,
                     has_more |-> OrElse(response.has_more, FALSE)]]

\* The value getDataStats returns.
StatsResult(params, response) ==
    [query_explanation |-> explainStatsQuery(params.stats_query),
     stats_query |-> params.stats_query,
     applied_filters |-> AppliedFilters(params),
     results |-> OrElse(response.items, <<>>),
     fields |-> OrElse(response.fields, <<>>),
     total_count |-> OrElse(response.total_count, 0),
     returned_count |-> Len(OrElse(response.items, <<>>)),
     has_more |-> OrElse(response.has_more, FALSE)]

\* No listDataItems or getDataStats call under way.
QxIdle ==
    /\ qxPc = "idle"
    /\ qxOperation = "none"
    /\ qxParams = Params(Absent, Absent, 0)
    /\ qxQueryParams = Absent
    /\ qxResult = NoResult

\* executeRadQLQuery has picked the operation: list with any filter, stats
\* with a non-empty stats_query.
QxInit ==
    /\ qxPc = "ready"
    /\ \/ /\ qxOperation = "list"
          /\ \E filters \in {Absent} \cup {Present(q) : q \in FilterQueries},
                offset \in {0, 20} :
                qxParams = Params(filters, Absent, offset)
       \/ /\ qxOperation = "stats"
          /\ \E filters \in {Absent, Present(""), Present("a:b AND c:d")},
                stats \in StatsQueries, offset \in {0, 20} :
                qxParams = Params(filters, Present(stats), offset)
    /\ qxQueryParams = Absent
    /\ qxResult = NoResult

\* listDataItems up to the await of makeRequest.
ListDataItems ==
    /\ qxPc = "ready" /\ qxOperation = "list"
    /\ qxQueryParams' = Present(ListQueryParams(qxParams))
    /\ qxPc' = "awaiting"
    /\ UNCHANGED <<qxOperation, qxParams, qxResult>>

\* getDataStats up to the await of makeRequest.
GetDataStats ==
    /\ qxPc = "ready" /\ qxOperation = "stats"
    /\ qxQueryParams' = Present(StatsQueryParams(qxParams))
    /\ qxPc' = "awaiting"
    /\ UNCHANGED <<qxOperation, qxParams, qxResult>>

\* makeRequest returns the body: the result is built.
DataRequestReturns ==
    /\ qxPc = "awaiting"
    /\ \E response \in DataResponses :
          qxResult' = Returned(IF qxOperation = "list"
                               THEN ListResult(qxParams, response)
                               ELSE StatsResult(qxParams, response))
    /\ qxPc' = "done"
    /\ UNCHANGED <<qxOperation, qxParams, qxQueryParams>>

\* makeRequest throws: the call fails with that error.
DataRequestFails ==
    /\ qxPc = "awaiting"
    /\ \E status \in HttpStatuses : qxResult' = Failed(HttpError(status, {}))
    /\ qxPc' = "done"
    /\ UNCHANGED <<qxOperation, qxParams, qxQueryParams>>

(***************************************************************************)
(*             main (index.ts): the streamable-HTTP transport              *)
(***************************************************************************)

\* Most transports created in one run.
MaxTransports == 2

\* What randomUUID() gives to the first, second, ... transport.
GeneratedIds == <<"uuid-1", "uuid-2", "uuid-3", "uuid-4">>

\* Property names every object literal inherits from Object.prototype.
ObjectPrototypeKeys == {"constructor"}

\* The mcp-session-id header of a request: absent, a generated id, an id
\* that was never generated, or the name of an inherited property.
SessionHeaders ==
    {Absent} \cup {Present(GeneratedIds[k]) : k \in 1..MaxTransports}
             \cup {Present("no-such-session")}
             \cup {Present(key) : key \in ObjectPrototypeKeys}

\* A request to /mcp; `initialize` says whether isInitializeRequest(req.body).
McpRequest(method, sessionId, initialize) ==
    [kind |-> "request", method |-> method, sessionId |-> sessionId,
     initialize |-> initialize]

\* A transport: its sessionId once the session is initialized, and whether
\* it was closed.
Transport(sessionId, closed) == [sessionId |-> sessionId, closed |-> closed]

\* How a request ends: handed to transport.handleRequest, answered 400 by
\* the route handler, or the handler's promise rejected.
HandedTo(transport) == [kind |-> "handled", transport |-> transport]
BadRequest(message) == [kind |-> "400", message |-> message]
HandlerRejected(error) == [kind |-> "rejected", error |-> error]

\* transports[sessionId]: an own property, a property inherited from
\* Object.prototype, or undefined.
Lookup(transports, sessionId) ==
    IF sessionId \in DOMAIN transports
    THEN [kind |-> "transport", transport |-> transports[sessionId]]
    ELSE IF sessionId \in ObjectPrototypeKeys
    THEN [kind |-> "inherited"]
    ELSE [kind |-> "undefined"]

\* sessionId && transports[sessionId]
KnownSession(transports, sessionId) ==
    sessionId.present /\ Lookup(transports, sessionId.value).kind # "undefined"

\* onsessioninitialized: transports[sessionId] = transport
Stored(transports, sessionId, transport) ==
    [id \in DOMAIN transports \cup {sessionId} |->
        IF id = sessionId THEN transport ELSE transports[id]]

\* transport.onclose: if (transport.sessionId) delete transports[...]
Deleted(transports, sessionId) ==
    IF sessionId.present
    THEN [id \in DOMAIN transports \ {sessionId.value} |-> transports[id]]
    ELSE transports

\* No HTTP server started.
StIdle ==
    /\ stTransports = << >>
    /\ stSessions = << >>
    /\ stRequest = NoRequest
    /\ stReply = NoResult

\* app.listen: the map is empty.
StInit == StIdle

\* await transport.handleRequest(...) for the value found under a session
\* id.  An inherited property is no transport: the call throws.  A DELETE
\* closes the transport, whose onclose removes it from the map.
HandRequest(method, sessionId) ==
    LET found == Lookup(stTransports, sessionId)
    IN IF found.kind = "inherited"
       THEN /\ stReply' = HandlerRejected("transport.handleRequest is not a function")
            /\ UNCHANGED <<stTransports, stSessions>>
       ELSE /\ stReply' = HandedTo(found.transport)
            /\ IF method = "DELETE"
               THEN /\ stSessions' =
                          [stSessions EXCEPT ![found.transport].closed = TRUE]
                    /\ stTransports' =
                          Deleted(stTransports, stSessions[found.transport].sessionId)
               ELSE UNCHANGED <<stTransports, stSessions>>

\* The initialization branch: a transport and a server are created and
\* connected, and the request is handed to the transport, which generates
\* the session id and calls onsessioninitialized unless it turns the
\* request down (headers it does not accept).
InitializeSession(accepted) ==
    LET transport == Len(stSessions) + 1
        sessionId == GeneratedIds[transport]
    IN /\ transport <= MaxTransports
       /\ stSessions' =
             Append(stSessions,
                    Transport(IF accepted THEN Present(sessionId) ELSE Absent, FALSE))
       /\ stTransports' =
             IF accepted THEN Stored(stTransports, sessionId, transport)
             ELSE stTransports
       /\ stReply' = HandedTo(transport)

\* app.post('/mcp', ...)
PostMcp ==
    \E sessionId \in SessionHeaders, initialize \in BOOLEAN :
        /\ stRequest' = McpRequest("POST", sessionId, initialize)
        /\ IF KnownSession(stTransports, sessionId)
           THEN HandRequest("POST", sessionId.value)
           ELSE IF ~sessionId.present /\ initialize
           THEN \E accepted \in BOOLEAN : InitializeSession(accepted)
           ELSE /\ stReply' = BadRequest("Bad Request: No valid session ID provided")
                /\ UNCHANGED <<stTransports, stSessions>>

\* handleSessionRequest, for one method
SessionRequest(method) ==
    \E sessionId \in SessionHeaders :
        /\ stRequest' = McpRequest(method, sessionId, FALSE)
        /\ IF ~KnownSession(stTransports, sessionId)
           THEN /\ stReply' = BadRequest("Invalid or missing session ID")
                /\ UNCHANGED <<stTransports, stSessions>>
           ELSE HandRequest(method, sessionId.value)

\* app.get('/mcp', handleSessionRequest)
GetMcp == SessionRequest("GET")

\* app.delete('/mcp', handleSessionRequest)
DeleteMcp == SessionRequest("DELETE")

(***************************************************************************)
(*                  main (index.ts): the SSE transport                     *)
(***************************************************************************)

\* Most POST /messages requests of one run.
MaxPosts == 2

\* The clients that connect and post.
SseClients == {"client-1", "client-2"}

\* A request of a client to one of the two routes.
SseRequest(route, client) == [kind |-> "request", route |-> route, client |-> client]

\* Mutant: each client's posts handled by the transport of its own GET /sse.
MessageTransport_OfClient(transport, owners, client) ==
    IF \E t \in 1..Len(owners) : owners[t] = client
    THEN Present(CHOOSE t \in 1..Len(owners) :
                    /\ owners[t] = client
                    /\ \A u \in (t + 1)..Len(owners) : owners[u] # client)
    ELSE Absent

\* The transport the POST /messages handler calls: the variable `transport`,
\* whoever posts.
MessageTransport(transport, owners, client) == transport

\* No HTTP server started, and app.listen: `transport` is not assigned.
SsIdle ==
    /\ ssTransport = Absent
    /\ ssOwners = << >>
    /\ ssStarted = {}
    /\ ssHandled = << >>
    /\ ssRequest = NoRequest
    /\ ssReply = NoResult

SsInit == SsIdle

\* app.get("/sse", ...): transport = new SSEServerTransport("/messages", res),
\* up to the await of server.connect(transport).
GetSse ==
    /\ Len(ssOwners) < MaxTransports
    /\ \E client \in SseClients :
          /\ ssRequest' = SseRequest("GET /sse", client)
          /\ ssOwners' = Append(ssOwners, client)
    /\ ssTransport' = Present(Len(ssOwners) + 1)
    /\ ssReply' = [kind |-> "stream", transport |-> Len(ssOwners) + 1]
    /\ UNCHANGED <<ssStarted, ssHandled>>

\* server.connect(transport) returns for one of the transports: its event
\* stream is open.
ConnectReturns ==
    /\ \E transport \in (1..Len(ssOwners)) \ ssStarted :
          ssStarted' = ssStarted \cup {transport}
    /\ UNCHANGED <<ssTransport, ssOwners, ssHandled, ssRequest, ssReply>>

\* app.post("/messages", ...): await transport.handlePostMessage(req, res);
\* with `transport` unassigned the call throws.
PostMessages ==
    /\ Len(ssHandled) < MaxPosts
    /\ \E client \in SseClients :
          /\ ssRequest' = SseRequest("POST /messages", client)
          /\ LET transport == MessageTransport(ssTransport, ssOwners, client)
             IN IF transport.present
                THEN /\ ssReply' = HandedTo(transport.value)
                     /\ ssHandled' =
                           Append(ssHandled, [client |-> client,
                                              transport |-> transport.value])
                ELSE /\ ssReply' = HandlerRejected("Cannot read properties of undefined")
                     /\ ssHandled' =
                           Append(ssHandled, [client |-> client, transport |-> 0])
    /\ UNCHANGED <<ssTransport, ssOwners, ssStarted>>

\* app.head("/sse", ...) and app.head("/messages", ...): res.sendStatus(200)
HeadRoute ==
    /\ \E client \in SseClients, route \in {"HEAD /sse", "HEAD /messages"} :
          ssRequest' = SseRequest(route, client)
    /\ ssReply' = [kind |-> "200"]
    /\ UNCHANGED <<ssTransport, ssOwners, ssStarted, ssHandled>>

(***************************************************************************)
(*             RadSecurityClient (client.ts): token cache                  *)
(***************************************************************************)

\* Most concurrent makeRequest calls, and the latest time explored.
MaxCalls == 2
MaxNow == 240

\* expiry.setMinutes(expiry.getMinutes() + 235)
TokenLifetime == 235

\* A makeRequest call: where it stands, the token getToken gave it, and
\* whether that token came from the cache or from its own authentication.
Call(pc, token, source) == [pc |-> pc, token |-> token, source |-> source]

\* tokenCache = { token, expiry }
CacheEntry(token, expiry) == Present([token |-> token, expiry |-> expiry])

\* Mutant: a cache entry taken for valid whatever its expiry.
isTokenValid_NoExpiry(cache, now) == cache.present

\* private isTokenValid(): boolean
isTokenValid(cache, now) == cache.present /\ now < cache.value.expiry

\* A new client: tokenCache = null, no call under way.
CkIdle ==
    /\ ckNow = 0
    /\ ckCache = Absent
    /\ ckCalls = [c \in 1..MaxCalls |-> Call("idle", Absent, "none")]
    /\ ckAuthRequests = 0
    /\ ckAuthLog = << >>
    /\ ckSent = << >>

CkInit == CkIdle

\* Time passes, two hours at a time.
ClockAdvances ==
    /\ ckNow + 120 <= MaxNow
    /\ ckNow' = ckNow + 120
    /\ UNCHANGED <<ckCache, ckCalls, ckAuthRequests, ckAuthLog, ckSent>>

\* makeRequest(...) up to the first await inside getToken: a valid cache
\* entry is returned, otherwise the authentication request is issued.
MakeRequest(c) ==
    /\ ckCalls[c].pc = "idle"
    /\ IF isTokenValid(ckCache, ckNow)
       THEN /\ ckCalls' = [ckCalls EXCEPT
                             ![c] = Call("hasToken", Present(ckCache.value.token), "cache")]
            /\ UNCHANGED ckAuthRequests
       ELSE /\ ckCalls' = [ckCalls EXCEPT ![c] = Call("authenticating", Absent, "none")]
            /\ ckAuthRequests' = ckAuthRequests + 1
    /\ UNCHANGED <<ckNow, ckCache, ckAuthLog, ckSent>>

\* The authentication answers with a token: it is cached with its expiry
\* and returned to the call.
AuthenticationReturns(c) ==
    /\ ckCalls[c].pc = "authenticating"
    /\ LET token == Len(ckAuthLog) + 1
       IN /\ ckCache' = CacheEntry(token, ckNow + TokenLifetime)
          /\ ckCalls' = [ckCalls EXCEPT ![c] = Call("hasToken", Present(token), "own")]
          /\ ckAuthLog' = Append(ckAuthLog, [call |-> c, token |-> token])
    /\ UNCHANGED <<ckNow, ckAuthRequests, ckSent>>

\* The authentication fails (no answer, a status that is not ok, a body
\* that is not JSON): getToken throws 'Error getting authentication token'.
AuthenticationFails(c) ==
    /\ ckCalls[c].pc = "authenticating"
    /\ ckCalls' = [ckCalls EXCEPT ![c] = Call("failed", Absent, "none")]
    /\ UNCHANGED <<ckNow, ckCache, ckAuthRequests, ckAuthLog, ckSent>>

\* makeRequest after `await this.getToken()`: the API request is sent with
\* the Authorization header `Bearer ${token}`.
SendRequest(c) ==
    /\ ckCalls[c].pc = "hasToken"
    /\ ckSent' = Append(ckSent, [call |-> c, token |-> ckCalls[c].token.value])
    /\ ckCalls' = [ckCalls EXCEPT ![c].pc = "awaiting"]
    /\ UNCHANGED <<ckNow, ckCache, ckAuthRequests, ckAuthLog>>

\* The API answers: the body is returned, or 'HTTP error! status' thrown.
ResponseArrives(c) ==
    /\ ckCalls[c].pc = "awaiting"
    /\ \E pc \in {"returned", "failed"} :
          ckCalls' = [ckCalls EXCEPT ![c].pc = pc]
    /\ UNCHANGED <<ckNow, ckCache, ckAuthRequests, ckAuthLog, ckSent>>

(***************************************************************************)
(*                          Logger (logger.ts)                             *)
(***************************************************************************)

\* const LOG_LEVEL_PRIORITY, as the list of the levels by rising priority.
LogLevels ==
    <<"debug", "info", "notice", "warning", "error", "critical", "alert", "emergency">>
LOG_LEVEL_PRIORITY(level) ==
    (CHOOSE k \in 1..Len(LogLevels) : LogLevels[k] = level) - 1

\* Logged data: a string, an object (its properties in order) or an array.
Str(text) == [kind |-> "string", text |-> text]
Prop(key, value) == [key |-> key, value |-> value]
Obj(props) == [kind |-> "object", props |-> props]
Arr(items) == [kind |-> "array", items |-> items]

\* The data handed to the log calls: a string, and objects with sensitive
\* names in another letter case at the top and nested in objects and arrays,
\* next to properties with no sensitive name.
LoggedData ==
    {Str("value"),
     Obj(<<Prop("accessToken", Obj(<<Prop("id", Str("k1"))>>))>>),
     Arr(<<Obj(<<Prop("user", Obj(<<Prop("Authorization", Str("Bearer abc"))>>))>>)>>),
     Obj(<<Prop("message", Str("Making API request")),
           Prop("Authorization", Str("Bearer abc")),
           Prop("params", Obj(<<Prop("X-API_KEY", Str("abc")),
                                Prop("limit", Str("20"))>>))>>)}

\* new Date().toISOString()
ISOString == "2026-01-01T00:00:00.000Z"

\* The levels setLevel and configure are called with.
ChosenLevels == {"debug", "warning", "emergency"}

\* key.toLowerCase(), letter by letter.
UpperCaseLetters == "ABCDEFGHIJKLMNOPQRSTUVWXYZ"
LowerCaseLetters == "abcdefghijklmnopqrstuvwxyz"
LowerChar(c) ==
    IF \E k \in 1..Len(UpperCaseLetters) : SubSeq(UpperCaseLetters, k, k) = c
    THEN LET k == CHOOSE l \in 1..Len(UpperCaseLetters) : SubSeq(UpperCaseLetters, l, l) = c
         IN SubSeq(LowerCaseLetters, k, k)
    ELSE c
RECURSIVE ToLowerCase(_)
ToLowerCase(s) ==
    IF s = "" THEN ""
    ELSE LowerChar(SubSeq(s, 1, 1)) \o ToLowerCase(SubSeq(s, 2, Len(s)))

\* const sensitiveKeys = [...]
sensitiveKeys ==
    <<"token", "sessionToken", "session_token", "accessKeyId", "access_key_id",
      "secretKey", "secret_key", "password", "authorization", "cookie",
      "api_key", "apiKey">>

\* sensitiveKeys.some(sk => lowerKey.includes(sk.toLowerCase()))
IsSensitiveKey(key) ==
    \E k \in 1..Len(sensitiveKeys) :
        Includes(ToLowerCase(key), ToLowerCase(sensitiveKeys[k]))

\* A call of sanitizeData: the value it returns, and what the object it was
\* given holds after the call.
Sanitizing(returned, argument) == [returned |-> returned, argument |-> argument]

\* Mutant: the copy redacted at its top level only.
sanitizeData_TopLevel(data) ==
    IF data.kind = "object"
    THEN Sanitizing(Obj([k \in 1..Len(data.props) |->
                           Prop(data.props[k].key,
                                IF IsSensitiveKey(data.props[k].key)
                                THEN Str("[REDACTED]")
                                ELSE data.props[k].value)]),
                    data)
    ELSE Sanitizing(data, data)

RECURSIVE sanitizeData(_)
\* private sanitizeData(data: any): any. Every assignment goes to the shallow
\* copy `sanitized`; the argument changes only where a nested call changes
\* the object it shares with the copy. The keys of an array are its indices,
\* which hold no sensitive name.
sanitizeData(data) ==
    CASE data.kind = "string" -> Sanitizing(data, data)
      [] data.kind = "array" ->
            LET item(k) ==
                    IF data.items[k].kind # "string"
                    THEN sanitizeData(data.items[k])
                    ELSE Sanitizing(data.items[k], data.items[k])
            IN Sanitizing(Arr([k \in 1..Len(data.items) |-> item(k).returned]),
                          Arr([k \in 1..Len(data.items) |-> item(k).argument]))
      [] data.kind = "object" ->
            LET entry(k) ==
                    IF IsSensitiveKey(data.props[k].key)
                    THEN Sanitizing(Str("[REDACTED]"), data.props[k].value)
                    ELSE IF data.props[k].value.kind # "string"
                    THEN sanitizeData(data.props[k].value)
                    ELSE Sanitizing(data.props[k].value, data.props[k].value)
            IN Sanitizing(Obj([k \in 1..Len(data.props) |->
                                 Prop(data.props[k].key, entry(k).returned)]),
                          Obj([k \in 1..Len(data.props) |->
                                 Prop(data.props[k].key, entry(k).argument)]))

\* sanitizeData of each of the logged data, computed once.
Sanitized == [data \in LoggedData |-> sanitizeData(data)]

\* private shouldLog(level: LogLevel): boolean
shouldLog(level, minLevel) ==
    LOG_LEVEL_PRIORITY(level) >= LOG_LEVEL_PRIORITY(minLevel)

\* { ...data }: the own enumerable properties of an object, an array (its
\* indices) or a string (its characters).
Spread(data) ==
    CASE data.kind = "object" -> data.props
      [] data.kind = "array" ->
            [k \in 1..Len(data.items) |-> Prop(DecimalDigits[k], data.items[k])]
      [] data.kind = "string" ->
            [k \in 1..Len(data.text) |->
                Prop(DecimalDigits[k], Str(SubSeq(data.text, k, k)))]

\* The message formatForHuman puts first, if the data has a truthy one.
HumanMessage(data) ==
    IF data.kind = "object"
       /\ \E k \in 1..Len(data.props) : data.props[k].key = "message"
    THEN LET k == CHOOSE l \in 1..Len(data.props) : data.props[l].key = "message"
         IN IF data.props[k].value = Str("") THEN Absent
            ELSE Present(data.props[k].value)
    ELSE Absent

\* private formatForHuman(data: any): string, as the parts it joins: the
\* message, then `${key}=${value}` for every other entry.
formatForHuman(data) ==
    IF data.kind = "string" THEN [text |-> Present(data.text), parts |-> << >>]
    ELSE [text |-> Absent,
          parts |-> (IF HumanMessage(data).present
                     THEN <<Prop("message", HumanMessage(data).value)>> ELSE << >>)
                    \o SelectSeq(Spread(data), LAMBDA prop : prop.key # "message")]

\* The console method of a level.
ConsoleLevel(level) ==
    CASE level = "debug" -> "debug"
      [] level \in {"info", "notice"} -> "log"
      [] level = "warning" -> "warn"
      [] OTHER -> "error"

\* What log() writes to stderr in each format.
StderrLine(format, level, logger, sanitizedData) ==
    IF format = "json"
    THEN [console |-> ConsoleLevel(level), format |-> "json",
          data |-> Obj(<<Prop("timestamp", Str(ISOString)), Prop("level", Str(level)),
                         Prop("logger", Str(logger))>> \o Spread(sanitizedData))]
    ELSE [console |-> ConsoleLevel(level), format |-> "human", level |-> level,
          logger |-> logger, human |-> formatForHuman(sanitizedData)]

\* The params of sendLog: the data with the timestamp and, when set, the
\* session id (no account or tenant id is configured).
LoggingMessage(level, logger, data, sessionId) ==
    [level |-> level, logger |-> logger,
     data |-> Obj(<<Prop("timestamp", Str(ISOString))>> \o Spread(data)
                  \o (IF sessionId.present
                      THEN <<Prop("session_id", Str(sessionId.value))>> ELSE << >>))]

\* new Logger(): the defaults of the constructor, no server, nothing logged.
LgIdle ==
    /\ lgMinLevel = "info"
    /\ lgEnableStderr = TRUE
    /\ lgEnableMcp = TRUE
    /\ lgStderrFormat = "human"
    /\ lgServer = Absent
    /\ lgCall = NoRequest
    /\ lgStderr = Absent
    /\ lgNotification = Absent

LgInit == LgIdle

\* configure(config): each property given is taken over.
Configure ==
    /\ \E minLevel \in {Absent, Present("error")},
          enableStderr \in {Absent, Present(TRUE), Present(FALSE)},
          enableMcpNotifications \in {Absent, Present(TRUE), Present(FALSE)},
          stderrFormat \in {Absent, Present("human"), Present("json")} :
          /\ lgMinLevel' = IF minLevel.present THEN minLevel.value ELSE lgMinLevel
          /\ lgEnableStderr' =
                IF enableStderr.present THEN enableStderr.value ELSE lgEnableStderr
          /\ lgEnableMcp' =
                IF enableMcpNotifications.present THEN enableMcpNotifications.value
                ELSE lgEnableMcp
          /\ lgStderrFormat' =
                IF stderrFormat.present THEN stderrFormat.value ELSE lgStderrFormat
    /\ UNCHANGED <<lgServer, lgCall, lgStderr, lgNotification>>

\* setServer(server, sessionId)
SetServer ==
    /\ lgServer' = Present([sessionId |-> Present("uuid-1")])
    /\ UNCHANGED <<lgMinLevel, lgEnableStderr, lgEnableMcp, lgStderrFormat, lgCall,
                   lgStderr, lgNotification>>

\* setLevel(level)
SetLevel ==
    /\ \E level \in ChosenLevels : lgMinLevel' = level
    /\ UNCHANGED <<lgEnableStderr, lgEnableMcp, lgStderrFormat, lgServer, lgCall,
                   lgStderr, lgNotification>>

\* log(level, logger, data), with sendLog up to its await; lgCall keeps the
\* data as given and as the caller's object holds it after the call.
Log ==
    /\ \E level \in {LogLevels[k] : k \in 1..Len(LogLevels)}, data \in LoggedData :
          /\ IF ~shouldLog(level, lgMinLevel)
             THEN /\ lgCall' = [kind |-> "log", level |-> level, given |-> data,
                                data |-> data]
                  /\ lgStderr' = Absent
                  /\ lgNotification' = Absent
             ELSE LET sanitizedData == Sanitized[data].returned
                  IN /\ lgCall' = [kind |-> "log", level |-> level, given |-> data,
                                   data |-> Sanitized[data].argument]
                     /\ lgStderr' =
                           IF lgEnableStderr
                           THEN Present(StderrLine(lgStderrFormat, level, "api",
                                                   sanitizedData))
                           ELSE Absent
                     /\ lgNotification' =
                           IF lgEnableMcp /\ lgServer.present
                           THEN Present(LoggingMessage(level, "api", sanitizedData,
                                                       lgServer.value.sessionId))
                           ELSE Absent
    /\ UNCHANGED <<lgMinLevel, lgEnableStderr, lgEnableMcp, lgStderrFormat, lgServer>>

(***************************************************************************)
(*                          Specifications                                 *)
(***************************************************************************)

InitWorkflow == WfInit /\ BqInit /\ RpIdle /\ AgInit /\ BdIdle /\ HeIdle /\ EqInit /\ SvIdle /\ QxIdle /\ StIdle /\ SsIdle /\ CkIdle /\ LgIdle

NextWorkflow ==
    \/ RunWorkflow /\ UNCHANGED OutsideWorkflow
    \/ GetTenantId /\ UNCHANGED OutsideWorkflow
    \/ GetWorkflow /\ UNCHANGED OutsideWorkflow
    \/ StartRunFails /\ UNCHANGED OutsideWorkflow
    \/ StartRunReturns /\ UNCHANGED OutsideWorkflow
    \/ PollTenant /\ UNCHANGED OutsideWorkflow
    \/ PollRunFails /\ UNCHANGED OutsideWorkflow
    \/ PollRunReturns /\ UNCHANGED OutsideWorkflow
    \/ SleepElapses /\ UNCHANGED OutsideWorkflow

SpecWorkflow == InitWorkflow /\ [][NextWorkflow]_vars

\* Every awaited request settles and every timer fires.
FairSpecWorkflow ==
    SpecWorkflow /\ WF_vars(WfStep /\ UNCHANGED OutsideWorkflow)

InitBatch == WfInit /\ BqInit /\ RpIdle /\ AgInit /\ BdIdle /\ HeIdle /\ EqInit /\ SvIdle /\ QxIdle /\ StIdle /\ SsIdle /\ CkIdle /\ LgIdle

NextBatch ==
    \/ ExecuteBatchQueries /\ UNCHANGED OutsideBatch
    \/ QuerySettles /\ UNCHANGED OutsideBatch

SpecBatch == InitBatch /\ [][NextBatch]_vars

InitReduce == WfInit /\ BqInit /\ RpInit /\ AgInit /\ BdIdle /\ HeIdle /\ EqInit /\ SvIdle /\ QxIdle /\ StIdle /\ SsIdle /\ CkIdle /\ LgIdle

NextReduce == ReduceProcesses /\ UNCHANGED OutsideReduce

SpecReduce == InitReduce /\ [][NextReduce]_vars

InitAggregator == WfInit /\ BqInit /\ RpIdle /\ AgInit /\ BdIdle /\ HeIdle /\ EqInit /\ SvIdle /\ QxIdle /\ StIdle /\ SsIdle /\ CkIdle /\ LgIdle

NextAggregator ==
    \/ GetContainersBaselines /\ UNCHANGED OutsideAggregator
    \/ GetContainersProcessTrees /\ UNCHANGED OutsideAggregator
    \/ ListFails /\ UNCHANGED OutsideAggregator
    \/ ListReturns /\ UNCHANGED OutsideAggregator
    \/ DetailFails /\ UNCHANGED OutsideAggregator
    \/ DetailReturns /\ UNCHANGED OutsideAggregator

SpecAggregator == InitAggregator /\ [][NextAggregator]_vars

InitBuilder == WfInit /\ BqInit /\ RpIdle /\ AgInit /\ BdInit /\ HeIdle /\ EqInit /\ SvIdle /\ QxIdle /\ StIdle /\ SsIdle /\ CkIdle /\ LgIdle

NextBuilder ==
    \/ BuildRadQLQuery /\ UNCHANGED OutsideBuilder

SpecBuilder == InitBuilder /\ [][NextBuilder]_vars

InitEnricher == WfInit /\ BqInit /\ RpIdle /\ AgInit /\ BdIdle /\ HeInit /\ EqInit /\ SvIdle /\ QxIdle /\ StIdle /\ SsIdle /\ CkIdle /\ LgIdle

NextEnricher ==
    \/ HandleRadQLError /\ UNCHANGED OutsideEnricher

SpecEnricher == InitEnricher /\ [][NextEnricher]_vars

InitQuery == WfInit /\ BqInit /\ RpIdle /\ AgInit /\ BdIdle /\ HeIdle /\ EqInit /\ SvIdle /\ QxIdle /\ StIdle /\ SsIdle /\ CkIdle /\ LgIdle

NextQuery ==
    \/ ExecuteRadQLQuery /\ UNCHANGED OutsideQuery
    \/ TokenFails /\ UNCHANGED OutsideQuery
    \/ RequestReturns /\ UNCHANGED OutsideQuery
    \/ RequestFails /\ UNCHANGED OutsideQuery

SpecQuery == InitQuery /\ [][NextQuery]_vars

InitServer ==
    WfInit /\ BqInit /\ RpIdle /\ AgInit /\ BdIdle /\ HeIdle /\ EqInit /\ SvInit /\ QxIdle /\ StIdle /\ SsIdle /\ CkIdle /\ LgIdle

NextServer ==
    \/ MainFails /\ UNCHANGED OutsideServer
    \/ NewServer /\ UNCHANGED OutsideServer
    \/ ListTools /\ UNCHANGED OutsideServer
    \/ CallTool /\ UNCHANGED OutsideServer
    \/ OperationReturns /\ UNCHANGED OutsideServer
    \/ OperationThrows /\ UNCHANGED OutsideServer

SpecServer == InitServer /\ [][NextServer]_vars

InitExplainer ==
    WfInit /\ BqInit /\ RpIdle /\ AgInit /\ BdIdle /\ HeIdle /\ EqInit /\ SvIdle /\ QxInit /\ StIdle /\ SsIdle /\ CkIdle /\ LgIdle

NextExplainer ==
    \/ ListDataItems /\ UNCHANGED OutsideExplainer
    \/ GetDataStats /\ UNCHANGED OutsideExplainer
    \/ DataRequestReturns /\ UNCHANGED OutsideExplainer
    \/ DataRequestFails /\ UNCHANGED OutsideExplainer

SpecExplainer == InitExplainer /\ [][NextExplainer]_vars

InitStreamable ==
    WfInit /\ BqInit /\ RpIdle /\ AgInit /\ BdIdle /\ HeIdle /\ EqInit /\ SvIdle /\ QxIdle /\ StInit /\ SsIdle /\ CkIdle /\ LgIdle

NextStreamable ==
    \/ PostMcp /\ UNCHANGED OutsideStreamable
    \/ GetMcp /\ UNCHANGED OutsideStreamable
    \/ DeleteMcp /\ UNCHANGED OutsideStreamable

SpecStreamable == InitStreamable /\ [][NextStreamable]_vars

InitSse ==
    WfInit /\ BqInit /\ RpIdle /\ AgInit /\ BdIdle /\ HeIdle /\ EqInit /\ SvIdle /\ QxIdle /\ StIdle /\ SsInit /\ CkIdle /\ LgIdle

NextSse ==
    \/ GetSse /\ UNCHANGED OutsideSse
    \/ ConnectReturns /\ UNCHANGED OutsideSse
    \/ PostMessages /\ UNCHANGED OutsideSse
    \/ HeadRoute /\ UNCHANGED OutsideSse

SpecSse == InitSse /\ [][NextSse]_vars

InitClient ==
    WfInit /\ BqInit /\ RpIdle /\ AgInit /\ BdIdle /\ HeIdle /\ EqInit /\ SvIdle /\ QxIdle /\ StIdle /\ SsIdle /\ CkInit /\ LgIdle

NextClient ==
    \/ ClockAdvances /\ UNCHANGED OutsideClient
    \/ \E c \in 1..MaxCalls : MakeRequest(c) /\ UNCHANGED OutsideClient
    \/ \E c \in 1..MaxCalls : AuthenticationReturns(c) /\ UNCHANGED OutsideClient
    \/ \E c \in 1..MaxCalls : AuthenticationFails(c) /\ UNCHANGED OutsideClient
    \/ \E c \in 1..MaxCalls : SendRequest(c) /\ UNCHANGED OutsideClient
    \/ \E c \in 1..MaxCalls : ResponseArrives(c) /\ UNCHANGED OutsideClient

SpecClient == InitClient /\ [][NextClient]_vars

InitLogger ==
    WfInit /\ BqInit /\ RpIdle /\ AgInit /\ BdIdle /\ HeIdle /\ EqInit /\ SvIdle /\ QxIdle /\ StIdle /\ SsIdle /\ CkIdle /\ LgInit

NextLogger ==
    \/ Configure /\ UNCHANGED OutsideLogger
    \/ SetServer /\ UNCHANGED OutsideLogger
    \/ SetLevel /\ UNCHANGED OutsideLogger
    \/ Log /\ UNCHANGED OutsideLogger

SpecLogger == InitLogger /\ [][NextLogger]_vars

(***************************************************************************)
(*                       runWorkflow: properties                           *)
(***************************************************************************)

\* The terminal run states of the specification's AsyncRun.
TerminalStatuses == {"completed", "failed", "cancelled"}

\* runWorkflow is between its first poll and its end.
WfPolling == wfPc \in {"pollTenant", "pollRun", "sleeping"}

\* This step is a getWorkflowRun call returning its payload.
PollJustReturned == wfReturned' = wfReturned + 1

\* The terminal half of C2: the first terminal poll ends the call with its
\* payload, and neither a poll nor a sleep follows it.
C2_TerminalPart ==
    /\ [](WfPolling => wfStatus \notin TerminalStatuses)
    /\ [](wfPc = "done" /\ wfReturned > 0 /\ wfStatus \in TerminalStatuses =>
            /\ wfResult = Returned(wfRunDetails)
            /\ wfRunDetails.status = wfStatus
            /\ wfPolls = wfReturned
            /\ wfSleeps = wfPolls - 1)
    /\ [][PollJustReturned /\ wfStatus' \in TerminalStatuses =>
            wfPc' = "done" /\ wfSleeps' = wfSleeps /\ wfPolls' = wfPolls]_vars
    /\ [][wfPc = "done" => wfPolls' = wfPolls /\ wfSleeps' = wfSleeps]_vars
    /\ [][wfPc = "sleeping" => wfPc' = "pollTenant" /\ wfPolls' = wfPolls + 1]_vars

\* C2 as stated: in synchronous mode the first poll with a terminal status
\* (completed, failed, cancelled) ends the call with its payload, without a
\* further poll or sleep, and EVERY other status, absent included, leads to
\* a sleep followed by another poll.
C2_Original ==
    /\ C2_TerminalPart
    /\ [][PollJustReturned /\ wfStatus' \notin TerminalStatuses =>
            wfPc' = "sleeping" /\ wfSleeps' = wfSleeps + 1]_vars

\* C2 as amended: in synchronous mode the first poll with a terminal status
\* ends the call with its payload, without a further poll or sleep (so a
\* terminal first poll returns without sleeping at all); every other status,
\* absent included, leads to a sleep followed by another poll unless more
\* than 300 s have elapsed since the loop started.
C2_SyncPolling ==
    /\ C2_TerminalPart
    /\ [][PollJustReturned /\ wfStatus' \notin TerminalStatuses
            /\ wfNow' - wfStartTime <= 300000 =>
            wfPc' = "sleeping" /\ wfSleeps' = wfSleeps + 1]_vars

\* A synchronous call that slept after a non-terminal poll and returned the
\* payload of a later, terminal one.
C2_Witness ==
    /\ wfPc = "done" /\ ~wfAsync
    /\ wfResult.kind = "returned"
    /\ wfStatus \in TerminalStatuses
    /\ wfPolls >= 2 /\ wfSleeps = wfPolls - 1

\* C3: in synchronous mode, when every poll returns and none is terminal,
\* runWorkflow ends with the timeout error naming the last status; the error
\* is raised at the first non-terminal poll observed more than 300 s after
\* the loop started, and the number of polls is bounded (2 s per sleep).
C3_Timeout ==
    /\ [](WfPolling => <>(wfPc = "done"))
    /\ [](wfPc = "done" /\ wfPolls > 0 /\ wfReturned = wfPolls
            /\ wfStatus \notin TerminalStatuses =>
            /\ wfResult = TimeoutError(300, wfStatus)
            /\ wfNow - wfStartTime > 300000)
    /\ [](wfResult.kind = "error" /\ wfResult.error = "did not finish within" =>
            /\ wfPc = "done" /\ wfReturned = wfPolls
            /\ wfStatus \notin TerminalStatuses
            /\ wfResult.lastStatus = wfStatus
            /\ wfNow - wfStartTime > 300000)
    /\ [](wfPc = "sleeping" => wfNow - wfStartTime <= 300000)
    /\ [](wfPolls <= 300000 \div 2000 + 2)

\* A call that timed out after several polls, none of them terminal.
C3_Witness ==
    /\ wfPc = "done"
    /\ wfResult = TimeoutError(300, wfStatus)
    /\ wfPolls > 2 /\ wfReturned = wfPolls

\* C4: getWorkflowRun is called only if the start call returned an id and
\* async is false; a start response without an id fails with 'no id in
\* response' and async=true returns {run_id, status "running", message},
\* both without any poll.
C4_PollOnlyWhenSyncStarted ==
    /\ wfPolls > 0 =>
          /\ wfResponse \in {[id |-> "run-1"], [id |-> "run-2"]}
          /\ ~wfAsync
    /\ wfResponse \in {Null, [id |-> Undefined]} =>
          wfPc = "done" /\ wfResult = Failed("no id in response") /\ wfPolls = 0
    /\ wfAsync /\ wfResponse \in {[id |-> "run-1"], [id |-> "run-2"]} =>
          /\ wfPc = "done" /\ wfPolls = 0
          /\ wfResult = Returned([run_id |-> wfResponse.id, status |-> "running",
                                   message |-> "Workflow started asynchronously"])

\* An asynchronous call that returned the running notice without polling.
C4_Witness ==
    /\ wfPc = "done" /\ wfAsync /\ wfPolls = 0
    /\ wfResult.kind = "returned"
    /\ wfResult.value.status = "running"

C1_BatchSettlesAll ==
    /\ bqAll.state # "rejected"
    /\ bqPc = "done" <=> bqAll.state = "fulfilled"
    /\ bqAll.state = "fulfilled" =>
          /\ Len(bqAll.value) = Len(bqQueries)
          /\ \A i \in 1..Len(bqQueries) :
                /\ bqInner[i].state # "pending"
                /\ bqInner[i].state = "fulfilled" =>
                      bqAll.value[i] = bqInner[i].value
                /\ bqInner[i].state = "rejected" =>
                      bqAll.value[i] = [error |-> bqInner[i].reason.message,
                                        query |-> bqQueries[i]]
    /\ (bqPc # "idle" /\ \A i \in 1..Len(bqQueries) : bqInner[i].state # "pending")
          => bqAll.state = "fulfilled"

\* Three queries, settled in an order other than the list's, of which one
\* failed and two succeeded, and the batch resolved.
C1_Witness ==
    /\ bqAll.state = "fulfilled"
    /\ Len(bqQueries) = 3
    /\ bqOrder = <<3, 1, 2>>
    /\ Cardinality({i \in 1..3 : bqInner[i].state = "rejected"}) = 1
    /\ bqInner[1].state = "rejected"
    /\ bqAll.value[2] = bqInner[2].value

(***************************************************************************)
(*                     reduceProcesses: properties                         *)
(***************************************************************************)

\* The formatted lines of the output: everything but the truncation notice.
FormattedLines(tree) ==
    {k \in 1..Len(tree) : tree[k].kind \in {"program", "connection"}}

\* C10: for every process tree and every limit >= 1 reduceProcesses emits at
\* most `limit` formatted lines before the truncation notice; a single
\* process with 2 programs and no children, with limit 1, gives exactly one
\* formatted line followed by the notice reporting a total of 1.
C10_Original ==
    rpPc = "done" /\ rpLimit >= 1 =>
        /\ Cardinality(FormattedLines(rpTree)) <= rpLimit
        /\ (rpProcesses = <<ProcessNode(1, 2, 0, <<>>)>> /\ rpLimit = 1 =>
              rpTree = <<ProgramLine(0, rpProcesses[1], 1), LimitReached(1, 1)>>)

\* The positions of the truncation notice in the output.
Notices(tree) == {k \in 1..Len(tree) : tree[k].kind = "limit reached"}

RECURSIVE NodePaths(_)
\* The process nodes of a tree, each named by its path from the top.
NodePaths(procs) ==
    UNION {{<<i>>} \cup {<<i>> \o path : path \in NodePaths(procs[i].children)} :
              i \in 1..Len(procs)}

\* C11: with limit <= 0 or an empty process list reduceProcesses returns the
\* empty sequence; otherwise the output holds a truncation notice exactly
\* when the formatted lines number at least `limit`, there is only one, it is
\* the last element, and it reports the number of process nodes of the whole
\* input tree, at every depth.
C11_NoticeAndTotal ==
    rpPc = "done" =>
        /\ (rpLimit <= 0 \/ rpProcesses = <<>>) => rpTree = <<>>
        /\ (rpLimit > 0 /\ rpProcesses # <<>>) =>
              /\ Notices(rpTree) # {} <=>
                    Cardinality(FormattedLines(rpTree)) >= rpLimit
              /\ Notices(rpTree) # {} =>
                    /\ Notices(rpTree) = {Len(rpTree)}
                    /\ rpTree[Len(rpTree)] =
                          LimitReached(rpLimit, Cardinality(NodePaths(rpProcesses)))

\* Two processes with a child each, cut at limit 2: the notice reports all
\* four nodes although the lines of only some of them were emitted.
C11_Witness ==
    /\ rpPc = "done"
    /\ rpLimit = 2
    /\ Len(rpProcesses) = 2
    /\ Cardinality(NodePaths(rpProcesses)) = 4
    /\ Len(rpTree) = 3
    /\ rpTree[3] = LimitReached(2, 4)
    /\ \A k \in 1..2 : rpTree[k].timestamp = 1

\* The positions of the formatted lines of the process with a timestamp.
LinesOf(tree, stamp) ==
    {k \in FormattedLines(tree) : tree[k].timestamp = stamp}

\* The lines a process contributes itself: one per program and connection.
OwnLineCount(process) == process.programs + process.connections

\* The lines the top level has emitted when the children of its i-th process
\* are handed over: those of processes 1..i and of the children of the
\* processes before the i-th.
EmittedBeforeChildren(i) ==
    Cardinality(
        {k \in FormattedLines(rpTree) :
            \/ \E j \in 1..i : rpTree[k].timestamp = rpProcesses[j].timestamp
            \/ \E j \in 1..(i - 1) :
                  /\ rpProcesses[j].children # <<>>
                  /\ rpTree[k].timestamp = rpProcesses[j].children[1].timestamp})

\* The budget left for the children of the i-th top-level process.
ChildBudget(i) == rpLimit - EmittedBeforeChildren(i)

\* C21: the children of a process are rendered only if the remaining budget
\* (the limit of the current level minus the lines already emitted at that
\* level) is positive; with a budget of zero or less no line of any
\* descendant is emitted, and with a positive budget the first child is
\* rendered with all its lines.
C21_ChildrenBudget ==
    rpPc = "done" =>
        \A i \in 1..Len(rpProcesses) :
            rpProcesses[i].children # <<>> =>
                LET child == rpProcesses[i].children[1]
                IN /\ ChildBudget(i) <= 0 => LinesOf(rpTree, child.timestamp) = {}
                   /\ ChildBudget(i) > 0 =>
                         Cardinality(LinesOf(rpTree, child.timestamp)) = OwnLineCount(child)

\* A process whose two program lines use up a limit of 2: its child, which
\* has a line to show, is left out.
C21_Witness ==
    /\ rpPc = "done"
    /\ rpLimit = 2
    /\ Len(rpProcesses) = 1
    /\ rpProcesses[1].programs = 2
    /\ rpProcesses[1].connections = 0
    /\ rpProcesses[1].children # <<>>
    /\ OwnLineCount(rpProcesses[1].children[1]) > 0
    /\ ChildBudget(1) = 0
    /\ LinesOf(rpTree, 11) = {}
    /\ Cardinality(LinesOf(rpTree, 1)) = 2

RECURSIVE Nodes(_)
\* The process nodes of a tree, at every depth.
Nodes(procs) ==
    UNION {{procs[i]} \cup Nodes(procs[i].children) : i \in 1..Len(procs)}

\* C29: whenever the output ends with the truncation notice, at least one
\* process node of the input tree has no line in the output; conversely,
\* when every process was rendered with all its lines, no notice is appended.
C29_Original ==
    rpPc = "done" =>
        /\ Notices(rpTree) # {} =>
              \E node \in Nodes(rpProcesses) : LinesOf(rpTree, node.timestamp) = {}
        /\ (\A node \in Nodes(rpProcesses) :
               Cardinality(LinesOf(rpTree, node.timestamp)) = OwnLineCount(node)) =>
              Notices(rpTree) = {}

(***************************************************************************)
(*                     buildRadQLQuery: properties                         *)
(***************************************************************************)

\* The call has returned a result holding a filters_query.
HasFilters ==
    /\ bdPc = "done"
    /\ bdResult.kind = "returned"
    /\ bdResult.value.filters_query.present

\* What precedes the value in a rendered condition: [NOT ]field<token>.
ConditionPrefix(cond) ==
    (IF cond.negate = "true" THEN <<"N", "O", "T", " ">> ELSE <<>>)
        \o cond.field
        \o (IF cond.operator \in WildcardOperators THEN <<":">>
            ELSE EnumText(cond.operator))

\* The value as the quoting rule sees it: wrapped in the wildcards of its
\* operator, or raw.
ConditionBody(cond) ==
    LET text == ValueText(cond.value)
    IN CASE cond.operator = "contains" -> <<"*">> \o text \o <<"*">>
         [] cond.operator = "starts_with" -> text \o <<"*">>
         [] cond.operator = "ends_with" -> <<"*">> \o text
         [] OTHER -> text

\* The quoting rule of the specification.
QuotingChars == {" ", "-", ":", "(", ")", "<", ">", "=", "!"}
MustBeQuoted(str) ==
    \/ \E k \in 1..Len(str) : str[k] \in QuotingChars
    \/ StartsWithDate(str)

\* C12: for every condition and every operator, the wildcard operators
\* included, a string value is emitted wrapped in double quotes if and only
\* if it contains a space, a hyphen, a colon, a parenthesis or a comparison
\* glyph, or starts with a YYYY-MM-DD date; numbers and booleans are emitted
\* in their literal text, never quoted.
C12_Original ==
    (HasFilters /\ Len(bdArgs.conditions.value) = 1) =>
        LET cond == bdArgs.conditions.value[1]
            rendered == bdResult.value.filters_query.value
        IN IF cond.value.type = "string"
           THEN IF MustBeQuoted(cond.value.str)
                THEN rendered = ConditionPrefix(cond) \o Quoted(ConditionBody(cond))
                ELSE rendered = ConditionPrefix(cond) \o ConditionBody(cond)
           ELSE rendered = ConditionPrefix(cond) \o ConditionBody(cond)

\* What remains of C12 in the code: the rule as stated for the comparison
\* operators; for the wildcard operators only space, hyphen and colon count.
QuotingAsCoded ==
    (HasFilters /\ Len(bdArgs.conditions.value) = 1) =>
        LET cond == bdArgs.conditions.value[1]
            rendered == bdResult.value.filters_query.value
            special == IF cond.operator \in WildcardOperators
                       THEN {" ", "-", ":"} ELSE QuotingChars
        IN IF /\ cond.value.type = "string"
              /\ \E k \in 1..Len(cond.value.str) : cond.value.str[k] \in special
           THEN rendered = ConditionPrefix(cond) \o Quoted(ConditionBody(cond))
           ELSE rendered = ConditionPrefix(cond) \o ConditionBody(cond)

RECURSIVE JoinedFrom(_, _, _)
\* The pieces from the k-th on, in order, with the separator between them.
JoinedFrom(pieces, k, separator) ==
    IF k > Len(pieces) THEN <<>>
    ELSE IF k = Len(pieces) THEN pieces[k]
    ELSE pieces[k] \o separator \o JoinedFrom(pieces, k + 1, separator)

\* C13: each condition is rendered as [NOT ]field<token><value>, where
\* contains gives field:*value*, starts_with field:value*, ends_with
\* field:*value and any other operator itself followed by the value, the
\* value standing in double quotes or not; the rendered conditions are
\* joined in input order with " AND " or " OR " as the combinator says, AND
\* when none is given; without conditions there is no filters_query.
C13_Rendering ==
    (bdPc = "done" /\ bdResult.kind = "returned") =>
        IF bdInput.conditions.present /\ bdInput.conditions.value # <<>>
        THEN LET conds == bdInput.conditions.value
                 word == IF bdInput.logic = "OR" THEN <<" ", "O", "R", " ">>
                         ELSE <<" ", "A", "N", "D", " ">>
             IN /\ bdResult.value.filters_query.present
                /\ \E quoted \in [1..Len(conds) -> BOOLEAN] :
                      bdResult.value.filters_query.value =
                          JoinedFrom([k \in 1..Len(conds) |->
                                        ConditionPrefix(conds[k]) \o
                                          (IF quoted[k]
                                           THEN Quoted(ConditionBody(conds[k]))
                                           ELSE ConditionBody(conds[k]))],
                                     1, word)
        ELSE ~bdResult.value.filters_query.present

\* image_name contains nginx, then NOT severity = abc-123-def, no combinator
\* given: image_name:*nginx* AND NOT severity="abc-123-def".
C13_Witness ==
    /\ bdPc = "done"
    /\ bdInput.logic = "absent"
    /\ bdInput.conditions =
          Present(<<Condition(image_name, "contains", StringValue(nginx), "absent"),
                    Condition(severity, "=", StringValue(abc_123_def), "true")>>)
    /\ bdResult.kind = "returned"
    /\ bdResult.value.filters_query =
          Present(image_name \o <<":", "*">> \o nginx \o <<"*">>
                    \o <<" ", "A", "N", "D", " ">>
                    \o <<"N", "O", "T", " ">> \o severity \o <<"=">>
                    \o <<Quote>> \o abc_123_def \o <<Quote>>)

\* The " by g1, g2, ..." part: empty without groups.
GroupSuffix(groups, time_group) ==
    IF groups = <<>> THEN <<>>
    ELSE <<" ", "b", "y", " ">> \o
         JoinedFrom([k \in 1..Len(groups) |->
                       IF /\ time_group # "absent"
                          /\ \/ Includes(groups[k], <<"_", "a", "t">>)
                             \/ Includes(groups[k], timestamp)
                             \/ Includes(groups[k], <<"t", "i", "m", "e">>)
                       THEN EnumText(time_group) \o <<"(">> \o groups[k] \o <<")">>
                       ELSE groups[k]],
                    1, <<",", " ">>)

\* C14: count without a field (absent or empty) is rendered "count()" and
\* with a field "count(field)"; another function without a field raises
\* '<function> requires an aggregate_field' and returns nothing, with a field
\* it is rendered "function(field)"; a non-empty group_by appends
\* " by g1, g2, ..." in input order, an entry standing as time_group(entry)
\* exactly when time_group is set and its name contains "_at", "timestamp"
\* or "time"; count by created_at with time_group day is
\* "count() by day(created_at)".
C14_Aggregation ==
    (bdPc = "done" /\ bdInput.aggregation # "absent") =>
        LET function == bdInput.aggregation
            noField == \/ ~bdInput.aggregate_field.present
                       \/ bdInput.aggregate_field.value = <<>>
            groups == IF bdInput.group_by.present THEN bdInput.group_by.value
                      ELSE <<>>
            suffix == GroupSuffix(groups, bdInput.time_group)
        IN /\ (function # "count" /\ noField) =>
                 bdResult = Failed([function |-> function,
                                    text |-> "requires an aggregate_field"])
           /\ (function = "count" /\ noField) =>
                 /\ bdResult.kind = "returned"
                 /\ bdResult.value.stats_query =
                       Present(<<"c", "o", "u", "n", "t", "(", ")">> \o suffix)
           /\ ~noField =>
                 /\ bdResult.kind = "returned"
                 /\ bdResult.value.stats_query =
                       Present(EnumText(function) \o <<"(">>
                                 \o bdInput.aggregate_field.value \o <<")">>
                                 \o suffix)
           /\ (/\ function = "count" /\ noField
               /\ bdInput.group_by = Present(<<created_at>>)
               /\ bdInput.time_group = "day") =>
                 bdResult.value.stats_query =
                    Present(<<"c", "o", "u", "n", "t", "(", ")", " ", "b", "y", " ",
                              "d", "a", "y", "(">> \o created_at \o <<")">>)

\* avg of cpu grouped by runtime and severity with time_group hour:
\* "avg(cpu) by hour(runtime), severity".
C14_Witness ==
    /\ bdPc = "done"
    /\ bdInput.aggregation = "avg"
    /\ bdInput.aggregate_field = Present(cpu)
    /\ bdInput.group_by = Present(<<runtime, severity>>)
    /\ bdInput.time_group = "hour"
    /\ bdResult.kind = "returned"
    /\ bdResult.value.stats_query =
          Present(<<"a", "v", "g", "(">> \o cpu \o <<")", " ", "b", "y", " ",
                    "h", "o", "u", "r", "(">> \o runtime \o <<")", ",", " ">>
                    \o severity)

(***************************************************************************)
(*            executeRadQLQuery / handleRadQLError: properties             *)
(***************************************************************************)

\* The title of the guidance an error carries, "none" when it carries none.
GuidanceTitle(error) ==
    IF error.message.present /\ "title" \in DOMAIN error.message.value
    THEN error.message.value.title
    ELSE "none"

\* The titles of the guidance written for each status.
TitlesFor(status) ==
    CASE status = 400 -> {"RadQL Parser Error", "Unknown Field Error",
                          "Invalid RadQL query syntax"}
      [] status = 404 -> {"Data type not found"}
      [] status = 401 -> {"Authentication failed"}
      [] status = 403 -> {"Access denied to data type"}
      [] OTHER -> {}

\* C15: when the API request of executeRadQLQuery fails with status 400,
\* 404, 401 or 403, the call fails with an error that carries the guidance
\* written for that status.
C15_Original ==
    (eqPc = "done" /\ eqStatus \in {400, 404, 401, 403}) =>
        /\ eqResult.kind = "error"
        /\ GuidanceTitle(eqResult.error) \in TitlesFor(eqStatus)

\* What the code does instead: a failed request fails the call with the
\* error of makeRequest as it was thrown, for every status.
HttpErrorsPassUnchanged ==
    (eqPc = "done" /\ eqStatus \in HttpStatuses) =>
        /\ eqResult.kind = "error"
        /\ GuidanceTitle(eqResult.error) = "none"
        /\ eqResult.error.message.value.text = "HTTP error! status"
        /\ eqResult.error.message.value.status = eqStatus

\* The status handleRadQLError was given, 0 when the error has none.
GivenStatus ==
    IF heError.response.present THEN heError.response.value.status ELSE 0

\* What C16 says of the statuses 404, 401 and 403.
NotFoundAuthAndAccess ==
    /\ GivenStatus = 404 =>
          /\ GuidanceTitle(heResult.value) = "Data type not found"
          /\ heResult.value.message.value.data_type = heDataType
    /\ GivenStatus = 401 =>
          heResult.value =
             NewError([title |-> "Authentication failed", issue |-> "none",
                       data_type |-> "none", common |-> "none",
                       original |-> Absent])
    /\ GivenStatus = 403 =>
          /\ GuidanceTitle(heResult.value) = "Access denied to data type"
          /\ heResult.value.message.value.data_type = heDataType

\* C16 as stated: 404, 401 and 403 get their message, and an error with any
\* other status, or with none, is returned unchanged.
C16_Original ==
    hePc = "done" =>
        /\ NotFoundAuthAndAccess
        /\ GivenStatus \notin {404, 401, 403} => heResult.value = heError

\* C16: handleRadQLError maps status 404 to the 'Data type ... not found'
\* message, 401 to the fixed 'Authentication failed' message and 403 to the
\* 'Access denied to data type ...' message naming the data type; an error
\* with status 400 is replaced by a new error that carries syntax or field
\* guidance and the original message; an error with any other status, or
\* with none, is returned unchanged.
C16_Enrichment ==
    hePc = "done" =>
        /\ NotFoundAuthAndAccess
        /\ GivenStatus = 400 =>
              /\ GuidanceTitle(heResult.value) \in TitlesFor(400)
              /\ heResult.value.message.value.original.present
              /\ heError.message.present =>
                    heResult.value.message.value.original.value = heError.message.value
        /\ GivenStatus \notin {400, 404, 401, 403} => heResult.value = heError

\* A 403 for the data type pods, answered with the access-denied message
\* naming pods.
C16_Witness ==
    /\ hePc = "done"
    /\ GivenStatus = 403
    /\ heDataType = "pods"
    /\ heError.message.present
    /\ heResult.value = NewError(AccessDenied("pods"))

\* The message handleRadQLError was given and the guidance it answered.
GivenMessage == OriginalMsg(heError)
Answered == heResult.value.message.value

\* The conditions of the 400 branch, as the claim names them.
ParserMessage ==
    \/ MessageIncludes(GivenMessage, "unexpected token")
    \/ MessageIncludes(GivenMessage, "invalid query")
DatePattern == MessageIncludes(GivenMessage, "unexpected token -digits")
FieldInParserMessage ==
    \/ MessageIncludes(GivenMessage, "unknown field")
    \/ MessageIncludes(GivenMessage, "not found")
FieldMessage ==
    \/ MessageIncludes(GivenMessage, "unknown field")
    \/ /\ MessageIncludes(GivenMessage, "field")
       /\ MessageIncludes(GivenMessage, "not found")

\* The field-discovery guidance: the data type to ask the metadata of, and
\* the common fields of that data type.
FieldDiscovery(guidance) ==
    [data_type |-> guidance.data_type, common |-> guidance.common]
ParserFieldDiscovery ==
    [data_type |-> IF heDataType = Undefined THEN "your_type" ELSE heDataType,
     common |-> CommonFields(heDataType)]

\* C22: for an error with status 400 handleRadQLError takes exactly one
\* branch, in this order: (1) a message with 'unexpected token' or 'invalid
\* query' gets the parser guidance: quote-your-dates for the date/hyphen
\* pattern, else field discovery for an unknown or not-found field, else the
\* four generic fixes; (2) otherwise a message about an unknown field gets
\* the same field-discovery guidance; (3) otherwise the generic 'Invalid
\* RadQL query syntax' with the original error and the data type.  Every
\* 400 result holds the original message.
C22_Original ==
    (hePc = "done" /\ GivenStatus = 400) =>
        /\ Answered.original = Present(GivenMessage)
        /\ ParserMessage /\ DatePattern =>
              /\ Answered.title = "RadQL Parser Error"
              /\ Answered.issue = "Unquoted date or hyphenated value detected"
        /\ ParserMessage /\ ~DatePattern /\ FieldInParserMessage =>
              /\ Answered.title = "RadQL Parser Error"
              /\ Answered.issue = "Unknown or misspelled field name"
              /\ FieldDiscovery(Answered) = ParserFieldDiscovery
        /\ ParserMessage /\ ~DatePattern /\ ~FieldInParserMessage =>
              /\ Answered.title = "RadQL Parser Error"
              /\ Answered.issue = "Invalid query syntax"
        /\ ~ParserMessage /\ FieldMessage =>
              FieldDiscovery(Answered) = ParserFieldDiscovery
        /\ ~ParserMessage /\ ~FieldMessage =>
              /\ Answered.title = "Invalid RadQL query syntax"
              /\ Answered.data_type = heDataType

(***************************************************************************)
(*                       MCP server: properties                            *)
(***************************************************************************)

\* A call-tool request has been handled and answered.
CallAnswered ==
    /\ svPc = "serving"
    /\ svRequest.kind = "tools/call"

\* The handler answered with a content payload whose text is a JSON object
\* with an error message.
ErrorPayload ==
    /\ svReply.kind = "result"
    /\ "content" \in DOMAIN svReply
    /\ Len(svReply.content) = 1
    /\ svReply.content[1].type = "text"
    /\ DOMAIN svReply.content[1].json = {"error"}

\* C17: the call-tool handler never rejects and never ends the process:
\* whatever the tool name and the arguments, it answers with a content
\* payload, which holds a JSON error message when the arguments are missing,
\* the tool is unknown, the schema rejects the arguments or the operation
\* throws; the server then takes the next request.
C17_HandlerNeverRejects ==
    /\ svRequest # NoRequest => svPc \in {"serving", "awaiting"}
    /\ svRequest.kind = "tools/call" =>
          /\ svPc = "awaiting" <=> svReply = NoResult
          /\ svPc = "serving" =>
                /\ svReply.kind = "result"
                /\ "content" \in DOMAIN svReply
                /\ ErrorPayload \/ svReply = Content([response |-> svOperation])
                /\ (\/ svRequest.arguments # "valid"
                    \/ svRequest.name \notin ToolNames) => ErrorPayload

\* run_workflow threw a value that is not an Error: answered with an error
\* payload, the server serving on.
C17_Witness ==
    /\ CallAnswered
    /\ svRequest = CallToolRequest("run_workflow", "valid")
    /\ svOperation = "run_workflow"
    /\ ErrorPayload
    /\ svReply.content[1].json.error = "a value that is not an Error"

\* The names listed in an environment variable that is set, blanks trimmed.
Listed(env) ==
    IF env.present /\ env.value # <<EnvItem("", FALSE)>>
    THEN Present({env.value[k].name : k \in 1..Len(env.value)})
    ELSE Absent

\* What the README says of a toolkit, given the environment.
EnabledAsDocumented(toolkit) ==
    IF Listed(svInclude).present THEN toolkit \in Listed(svInclude).value
    ELSE IF Listed(svExclude).present THEN toolkit \notin Listed(svExclude).value
    ELSE TRUE

\* The toolkit a tool belongs to.
ToolkitOf(tool) ==
    CHOOSE toolkit \in Elements(ToolkitTypes) : tool \in Elements(ToolsOf(toolkit))

\* C18: with INCLUDE_TOOLKITS set a toolkit is enabled iff it is in the
\* include list, EXCLUDE_TOOLKITS being ignored; with only EXCLUDE_TOOLKITS
\* set it is enabled iff it is not in the exclude list; with neither set
\* every toolkit is enabled.
C18_ToolkitEnabled ==
    svPc \in {"serving", "awaiting"} =>
        \A toolkit \in Elements(ToolkitTypes) :
            /\ isToolkitEnabled(toolkit, svFilters) <=> EnabledAsDocumented(toolkit)
            /\ svRequest = ListToolsRequest =>
                  IF EnabledAsDocumented(toolkit)
                  THEN Elements(ToolsOf(toolkit)) \subseteq Elements(svReply.tools)
                  ELSE Elements(ToolsOf(toolkit)) \cap Elements(svReply.tools) = {}

\* INCLUDE_TOOLKITS=" workflows ,containers" with EXCLUDE_TOOLKITS=workflows:
\* the tools of containers and workflows are listed, in the handler's order.
C18_Witness ==
    /\ svPc = "serving"
    /\ svInclude = Present(<<EnvItem("workflows", TRUE), EnvItem("containers", FALSE)>>)
    /\ svExclude = Present(<<EnvItem("workflows", FALSE)>>)
    /\ svRequest = ListToolsRequest
    /\ svReply = ToolList(ToolsOf("containers") \o ToolsOf("workflows"))

\* C19: only the tools of enabled toolkits are exposed: the tools of a
\* toolkit that the filters leave out are absent from the list-tools answer,
\* and a call-tool request naming one of them does not execute its operation.
C19_Original ==
    /\ (svPc = "serving" /\ svRequest = ListToolsRequest) =>
          \A tool \in Elements(svReply.tools) : EnabledAsDocumented(ToolkitOf(tool))
    /\ svOperation # "none" => EnabledAsDocumented(ToolkitOf(svOperation))

\* What remains of C19 in the code: the list-tools answer holds exactly the
\* tools of the enabled toolkits.
OnlyEnabledToolsListed ==
    (svPc = "serving" /\ svRequest = ListToolsRequest) =>
        Elements(svReply.tools) =
            {tool \in ToolNames : EnabledAsDocumented(ToolkitOf(tool))}

\* The timeout error of runWorkflow is the result.
TimedOut(result) ==
    result.kind = "error" /\ result.error = "did not finish within"

\* C28: in the poll loop the terminal-status check precedes the timeout
\* check: a poll returning completed, failed or cancelled is returned as the
\* result even when more than 300 s have elapsed, and the timeout error is
\* raised only by the step in which a poll returns a non-terminal status,
\* never while a poll or a sleep is in progress.
C28_TerminalBeforeTimeout ==
    [][/\ PollJustReturned /\ wfStatus' \in TerminalStatuses =>
             wfPc' = "done" /\ wfResult' = Returned(wfRunDetails')
       /\ TimedOut(wfResult') /\ ~TimedOut(wfResult) =>
             /\ wfPc = "pollRun" /\ PollJustReturned
             /\ wfStatus' \notin TerminalStatuses
             /\ wfResult'.lastStatus = wfStatus']_vars

\* A terminal poll observed more than 300 s after the loop started is the
\* result of the call.
C28_Witness ==
    /\ wfPc = "done"
    /\ wfReturned = wfPolls /\ wfPolls > 0
    /\ wfStatus \in TerminalStatuses
    /\ wfNow - wfStartTime > maxWaitTime
    /\ wfResult = Returned(wfRunDetails)

(***************************************************************************)
(*     getContainersBaselines / getContainersProcessTrees: properties      *)
(***************************************************************************)

\* The identifiers asked for.
Requested == {agIds[k] : k \in 1..Len(agIds)}

\* The list call has returned its answer.
ListAnswered == agCris # NoCris

\* The insights the list call returned.
Insights == {agCris.entries[i] : i \in 1..Len(agCris.entries)}

\* The requested identifiers that the list call returned an insight for
\* whose detail record has the sub-payload.
Resolved ==
    {c \in Requested : \E e \in Insights : e.container_id = c /\ e.detail = "present"}

\* The detail request of an insight of a requested identifier fails.
SomeDetailFails ==
    \E e \in Insights : e.container_id \in Requested /\ e.detail = "error"

\* The errors that report that nothing was found for the identifiers.
NotFoundErrors ==
    {FailedFor("No baselines found for any of the container_ids", agIds),
     FailedFor("No process trees found for container_ids", agIds)}

\* What getContainersBaselines settles with once the list call has been
\* answered, according to C6: the map of the resolved identifiers, or the
\* not-found error when there is none.
BaselinesAsClaimed ==
    /\ agResult.kind \in {"returned", "error"}
    /\ agResult \in NotFoundErrors <=> Resolved = {}
    /\ agResult.kind = "returned" <=> Resolved # {}
    /\ agResult.kind = "returned" =>
          /\ DOMAIN agResult.value = Resolved
          /\ \A c \in Resolved :
                \E e \in Insights :
                    /\ e.container_id = c /\ e.detail = "present"
                    /\ agResult.value[c] = [baseline_of |-> e.id]

\* C6: getContainersBaselines returns a map whose keys are exactly the
\* requested identifiers that the list call returned an insight for whose
\* detail record has a baseline, each mapped to that baseline; it raises the
\* not-found error naming the requested identifiers iff there is no such
\* identifier.
C6_Original ==
    (agVariant = "baselines" /\ agPc = "done" /\ ListAnswered) => BaselinesAsClaimed

\* What remains of C6 in the code: the same, as long as no detail request of
\* a requested identifier fails.
BaselinesMapUnlessDetailFails ==
    /\ (agVariant = "baselines" /\ agPc = "done" /\ ListAnswered /\ ~SomeDetailFails)
          => BaselinesAsClaimed
    /\ (agVariant = "baselines" /\ agResult \in NotFoundErrors) =>
          agPc = "done" /\ ListAnswered /\ Resolved = {}

\* Three identifiers of which exactly one resolves: a one-entry map.
OneOfThreeResolved ==
    /\ agVariant = "baselines" /\ agPc = "done"
    /\ Len(agIds) = 3
    /\ Len(agCris.entries) = 2
    /\ Cardinality(Resolved) = 1
    /\ agResult.kind = "returned"
    /\ Cardinality(DOMAIN agResult.value) = 1

\* C7: in either aggregator a detail call that raises does not abort the
\* batch: it is skipped, what the other identifiers resolved to is returned,
\* and the operation fails only if no identifier at all resolved.
C7_Original ==
    (agPc = "done" /\ ListAnswered /\ agCris.hasEntries) =>
        /\ agResult # Failed("HTTP error")
        /\ agVariant = "baselines" /\ Resolved # {} =>
              agResult.kind = "returned" /\ DOMAIN agResult.value = Resolved
        /\ agVariant = "processTrees" => agResult.kind = "returned"

\* C8: both aggregators, called with an empty identifier list, raise the
\* validation error before any request is issued.
C8_EmptyIdsRejected ==
    (agPc # "idle" /\ agIds = <<>>) =>
        /\ agPc = "done"
        /\ agResult = Failed("No container IDs provided")
        /\ agRequests = <<>>
        /\ ~ListAnswered

\* getContainersProcessTrees called with an empty list and rejected.
C8_Witness ==
    /\ agVariant = "processTrees" /\ agPc = "done" /\ agIds = <<>>
    /\ agResult.kind = "error"
    /\ agRequests = <<>>

\* C9: getContainersProcessTrees with a non-empty identifier list never
\* fails because nothing resolved: when the list call yields no insights it
\* returns the empty map, and an insight whose detail record lacks
\* ongoing.containers[0] contributes an empty placeholder under its id.
C9_Original ==
    (agVariant = "processTrees" /\ agPc = "done" /\ ListAnswered
        /\ \A e \in Insights : e.detail # "error") =>
        /\ agResult.kind = "returned"
        /\ Insights = {} => DOMAIN agResult.value = {}
        /\ \A e \in Insights :
              e.detail = "absent" =>
                 /\ e.id \in DOMAIN agResult.value
                 /\ agResult.value[e.id] = [empty |-> TRUE]


\* The insights of the list answer that carry a requested identifier, in the
\* order of the answer.
MatchingEntries ==
    SelectSeq(agCris.entries,
              LAMBDA entry : /\ entry.container_id # Undefined
                             /\ entry.container_id \in Requested)

\* The requests C20 describes: the list call with the identifiers, then one
\* detail call for each matching insight.
RequestsAsClaimed ==
    <<ListRequest(agIds)>>
        \o [k \in 1..Len(MatchingEntries) |-> DetailRequest(MatchingEntries[k].id)]

\* C20: in both aggregators, after the single list call, exactly one detail
\* call is issued for each returned insight whose container identifier is
\* present and among the requested ones, and none for any other insight; the
\* detail calls are issued one at a time.
C20_Original ==
    /\ (agPc = "done" /\ ListAnswered /\ agCris.hasEntries) =>
          agRequests = RequestsAsClaimed
    /\ agPc = "detail" =>
          /\ agRequests[Len(agRequests)] = DetailRequest(agCris.entries[agIdx].id)
          /\ Cardinality({k \in 1..Len(agRequests) : agRequests[k].call = "detail"})
                <= agIdx

\* What remains of C20 in the code: getContainersBaselines issues those
\* requests as long as no detail call fails; getContainersProcessTrees
\* issues a detail call for every insight of the answer up to the first
\* that fails.
DetailCallsAsCoded ==
    /\ (agPc = "done" /\ ListAnswered /\ agCris.hasEntries
          /\ agVariant = "baselines" /\ ~SomeDetailFails) =>
          agRequests = RequestsAsClaimed
    /\ (agPc = "done" /\ ListAnswered /\ agCris.hasEntries
          /\ agVariant = "processTrees") =>
          \E n \in 0..Len(agCris.entries) :
              /\ agRequests =
                    <<ListRequest(agIds)>>
                        \o [k \in 1..n |-> DetailRequest(agCris.entries[k].id)]
              /\ n < Len(agCris.entries) => agCris.entries[n].detail = "error"
              /\ \A k \in 1..(n - 1) : agCris.entries[k].detail # "error"

(***************************************************************************)
(*          explainRadQLQuery / listDataItems / getDataStats: properties   *)
(***************************************************************************)

\* The seven patterns of the filter explainer in their fixed order, with the
\* clause each one stands for.
PatternOccurs(k, query) ==
    CASE k = 1 -> Includes(query, " AND ")
      [] k = 2 -> Includes(query, " OR ")
      [] k = 3 -> Includes(query, "NOT ")
      [] k = 4 -> Includes(query, ":")
      [] k = 5 -> Includes(query, "*")
      [] k = 6 -> Includes(query, "<") \/ Includes(query, ">")
      [] k = 7 -> Includes(query, "(") /\ Includes(query, ")")
ClauseOf(k) ==
    CASE k = 1 -> "All conditions must be true"
      [] k = 2 -> "Any condition can be true"
      [] k = 3 -> "Excluding items matching certain conditions"
      [] k = 4 -> "Filtering by exact field values"
      [] k = 5 -> "Using wildcard pattern matching"
      [] k = 6 -> "Comparing numeric or date values"
      [] k = 7 -> "Using grouped conditions"

RECURSIVE ClausesFrom(_, _)
\* The clauses of the patterns k, k+1, ... that occur, joined with "; ".
ClausesFrom(k, query) ==
    IF k > 7 THEN ""
    ELSE IF ~PatternOccurs(k, query) THEN ClausesFrom(k + 1, query)
    ELSE IF \E l \in (k + 1)..7 : PatternOccurs(l, query)
    THEN ClauseOf(k) \o "; " \o ClausesFrom(k + 1, query)
    ELSE ClauseOf(k)

NoPatternOccurs(query) ==
    \A k \in 1..7 : ~PatternOccurs(k, query)

\* A list call that returned, its filter and the explanation it carries.
ListReturned ==
    qxPc = "done" /\ qxOperation = "list" /\ qxResult.kind = "returned"
GivenFilter == qxParams.filters_query
Explanation == qxResult.value.query_explanation

\* What C23 says of a query that is present, whatever its text.
ExplainsPresent ==
    /\ Explanation = "Applying custom filter conditions" <=>
          NoPatternOccurs(GivenFilter.value)
    /\ ~NoPatternOccurs(GivenFilter.value) =>
          Explanation = ClausesFrom(1, GivenFilter.value)
    /\ GivenFilter.value = "a:b AND c:d" =>
          /\ Includes(Explanation, "All conditions must be true")
          /\ Includes(Explanation, "Filtering by exact field values")

\* C23 as stated: the fixed message for an absent query; for a present one
\* the clauses of the patterns that occur, in the fixed order, joined with
\* "; ", and the fallback iff the query is present and no pattern occurs.
C23_Original ==
    ListReturned =>
        /\ ~GivenFilter.present =>
              Explanation = "No filters applied - returning all items"
        /\ GivenFilter.present => ExplainsPresent

\* C23: explainRadQLQuery returns 'No filters applied - returning all
\* items' for an absent or empty query; for a non-empty query it returns the
\* clauses, joined with "; " in the fixed order AND, OR, NOT, ':', '*',
\* '<' or '>', parentheses, of exactly the patterns that occur in the text,
\* and 'Applying custom filter conditions' iff no pattern occurs.
C23_Explanation ==
    ListReturned =>
        /\ (~GivenFilter.present \/ GivenFilter.value = "") =>
              Explanation = "No filters applied - returning all items"
        /\ (GivenFilter.present /\ GivenFilter.value # "") => ExplainsPresent

\* A query with all seven patterns, explained by seven clauses in order.
C23_Witness ==
    /\ ListReturned
    /\ GivenFilter = Present("(NOT a:b* AND c>d) OR e<f")
    /\ Explanation = "All conditions must be true; Any condition can be true; "
                     \o "Excluding items matching certain conditions; "
                     \o "Filtering by exact field values; "
                     \o "Using wildcard pattern matching; "
                     \o "Comparing numeric or date values; Using grouped conditions"

\* A list or stats call whose request was sent, and one that returned.
DataRequestSent == qxPc \in {"awaiting", "done"}
DataReturned == qxPc = "done" /\ qxResult.kind = "returned"

\* What holds of every call whatever its filter: the stats_query is sent and
\* echoed as given, the call fails only with the error of the request, and
\* the paging of a list result is the caller's.
StatsQueryUntouched ==
    /\ (DataRequestSent /\ qxOperation = "stats") =>
          qxQueryParams.value.stats_query = qxParams.stats_query
    /\ (DataReturned /\ qxOperation = "stats") =>
          /\ qxResult.value.stats_query = qxParams.stats_query
          /\ qxResult.value.query_explanation = explainStatsQuery(qxParams.stats_query)
    /\ (DataReturned /\ qxOperation = "list") =>
          /\ qxResult.value.pagination.limit = qxParams.limit
          /\ qxResult.value.pagination.offset = qxParams.offset
    /\ (qxPc = "done" /\ qxResult.kind = "error") =>
          qxResult.error.message.value.text = "HTTP error! status"

\* C24 as stated: explaining never alters the query and never raises; the
\* filters_query and stats_query sent to the API and the values echoed in
\* the result (applied_filters, stats_query) are the caller's strings, for
\* every query text.
C24_Original ==
    /\ StatsQueryUntouched
    /\ DataRequestSent => qxQueryParams.value.filters_query = GivenFilter
    /\ (DataReturned /\ GivenFilter.present) =>
          qxResult.value.applied_filters = GivenFilter.value

\* C24: explaining never alters the query and never raises; a non-empty
\* filters_query is sent to the API and echoed in applied_filters exactly as
\* the caller gave it, malformed or not, an absent or empty one is not sent
\* and is echoed as "none"; the stats_query is sent and echoed as given.
C24_QueriesUntouched ==
    /\ StatsQueryUntouched
    /\ (DataRequestSent /\ GivenFilter.present /\ GivenFilter.value # "") =>
          qxQueryParams.value.filters_query = GivenFilter
    /\ (DataRequestSent /\ (~GivenFilter.present \/ GivenFilter.value = "")) =>
          qxQueryParams.value.filters_query = Absent
    /\ (DataReturned /\ GivenFilter.present /\ GivenFilter.value # "") =>
          qxResult.value.applied_filters = GivenFilter.value
    /\ (DataReturned /\ (~GivenFilter.present \/ GivenFilter.value = "")) =>
          qxResult.value.applied_filters = "none"

\* A malformed filter, sent and echoed as it was given.
C24_Witness ==
    /\ DataReturned
    /\ qxOperation = "list"
    /\ GivenFilter = Present("name:nginx AND (")
    /\ qxQueryParams.value.filters_query = Present("name:nginx AND (")
    /\ qxResult.value.applied_filters = "name:nginx AND ("
    /\ qxResult.value.query_explanation =
          "All conditions must be true; Filtering by exact field values"

(***************************************************************************)
(*                 streamable-HTTP transport: properties                   *)
(***************************************************************************)

\* The session ids of the transports that are initialized and not closed.
OpenSessions ==
    {stSessions[t].sessionId.value :
        t \in {u \in 1..Len(stSessions) :
                 stSessions[u].sessionId.present /\ ~stSessions[u].closed}}

\* The map holds exactly the open sessions, each with its own transport.
MapHoldsOpenSessions ==
    /\ DOMAIN stTransports = OpenSessions
    /\ \A id \in DOMAIN stTransports :
          stSessions[stTransports[id]].sessionId = Present(id)

\* The request of this step names a session the map held before the step.
NamesHeldSession ==
    /\ stRequest'.sessionId.present
    /\ stRequest'.sessionId.value \in DOMAIN stTransports

\* The request of this step is a POST without session id that initializes.
IsInitialization ==
    /\ stRequest'.method = "POST"
    /\ ~stRequest'.sessionId.present
    /\ stRequest'.initialize

\* C25: the transport map holds a session id exactly from the session's
\* initialization until its transport closes; a request is handed to a
\* transport only if its mcp-session-id is in the map, or it is a POST
\* without session id carrying an initialize request, which creates a new
\* transport; every other POST is answered 400 'No valid session ID
\* provided' and every GET or DELETE with a missing or unknown session id
\* is answered 400, without invoking or creating a transport; a request
\* naming a closed session is rejected.
C25_Original ==
    [][/\ MapHoldsOpenSessions'
       /\ stReply'.kind = "handled" =>
             \/ NamesHeldSession /\ stReply'.transport = stTransports[stRequest'.sessionId.value]
             \/ IsInitialization /\ stReply'.transport = Len(stSessions) + 1
       /\ (stRequest'.method = "POST" /\ ~NamesHeldSession /\ ~IsInitialization) =>
             /\ stReply' = BadRequest("Bad Request: No valid session ID provided")
             /\ UNCHANGED <<stTransports, stSessions>>
       /\ (stRequest'.method \in {"GET", "DELETE"} /\ ~NamesHeldSession) =>
             /\ stReply'.kind = "400"
             /\ UNCHANGED <<stTransports, stSessions>>
       /\ (\E t \in 1..Len(stSessions) :
              stSessions[t].closed /\ stRequest'.sessionId = stSessions[t].sessionId) =>
             stReply'.kind = "400"]_vars

(***************************************************************************)
(*                       SSE transport: properties                         *)
(***************************************************************************)

\* C26: in SSE mode one transport variable is shared by all clients: every
\* POST /messages is handled by the transport created by the most recent
\* GET /sse, whichever client posts, and a POST /messages that arrives
\* before any GET /sse has no transport to handle it.
C26_SharedTransport ==
    [][/\ ssTransport' =
             IF ssOwners' = << >> THEN Absent ELSE Present(Len(ssOwners'))
       /\ Len(ssHandled') > Len(ssHandled) =>
             /\ ssRequest'.route = "POST /messages"
             /\ ssHandled'[Len(ssHandled')].client = ssRequest'.client
             /\ ssHandled'[Len(ssHandled')].transport = Len(ssOwners)
             /\ ssReply' = IF ssOwners = << >>
                           THEN HandlerRejected("Cannot read properties of undefined")
                           ELSE HandedTo(Len(ssOwners))]_vars

\* The first client posts after the second one connected: its message goes
\* to the second client's transport.
C26_Witness ==
    /\ ssOwners = <<"client-1", "client-2">>
    /\ ssStarted = {1, 2}
    /\ ssRequest = SseRequest("POST /messages", "client-1")
    /\ ssReply = HandedTo(2)
    /\ ssHandled = <<[client |-> "client-1", transport |-> 1],
                     [client |-> "client-1", transport |-> 2]>>

(***************************************************************************)
(*                  RadSecurityClient: properties                          *)
(***************************************************************************)

\* This step gives call c its token.
TakesToken(c) == ~ckCalls[c].token.present /\ ckCalls'[c].token.present

\* This step ends the authentication of call c in failure.
AuthenticationFailed_Step(c) ==
    ckCalls[c].pc = "authenticating" /\ ckCalls'[c].pc = "failed"

\* C27: for every interleaving of concurrent makeRequest calls on one
\* client, an API request is sent only with a token taken from a cache
\* entry that was valid when the call asked for it, or from that call's own
\* successful authentication; a failed authentication leaves the cache
\* unchanged and fails the call before any API request of it is sent;
\* authentication is not single-flight: every call started while the cache
\* is empty or expired issues its own authentication request, and the cache
\* holds the token of the authentication that completed last.
C27_TokenCache ==
    [][\A c \in 1..MaxCalls :
          /\ TakesToken(c) =>
                \/ /\ ckCalls'[c].source = "cache"
                   /\ ckCache.present /\ ckNow < ckCache.value.expiry
                   /\ ckCalls'[c].token = Present(ckCache.value.token)
                   /\ UNCHANGED <<ckCache, ckAuthRequests, ckAuthLog>>
                \/ /\ ckCalls'[c].source = "own"
                   /\ ckCalls[c].pc = "authenticating"
                   /\ Len(ckAuthLog') = Len(ckAuthLog) + 1
                   /\ ckAuthLog'[Len(ckAuthLog')] =
                         [call |-> c, token |-> ckCalls'[c].token.value]
                   /\ \A k \in 1..Len(ckAuthLog) :
                         ckAuthLog[k].token # ckCalls'[c].token.value
          /\ Len(ckSent') > Len(ckSent) /\ ckSent'[Len(ckSent')].call = c =>
                /\ ckCalls[c].token = Present(ckSent'[Len(ckSent')].token)
                /\ ckCalls[c].pc = "hasToken"
          /\ AuthenticationFailed_Step(c) =>
                /\ UNCHANGED <<ckCache, ckSent>>
                /\ \A k \in 1..Len(ckSent) : ckSent[k].call # c
          /\ ckCalls'[c].pc = "failed" /\ ~ckCalls'[c].token.present =>
                \A k \in 1..Len(ckSent') : ckSent'[k].call # c
          /\ (ckCalls[c].pc = "idle" /\ ckCalls'[c].pc # "idle"
                /\ ~(ckCache.present /\ ckNow < ckCache.value.expiry)) =>
                /\ ckCalls'[c].pc = "authenticating"
                /\ ckAuthRequests' = ckAuthRequests + 1
          /\ ckCache' = IF ckAuthLog' = << >> THEN Absent
                        ELSE CacheEntry(ckAuthLog'[Len(ckAuthLog')].token,
                                        ckCache'.value.expiry)]_vars

\* Two calls started on an empty cache authenticate each on its own; the
\* second one completes first, and the cache ends with the token of the
\* first call, which completed last; both requests are sent, each with its
\* own token.
C27_Witness ==
    /\ ckAuthRequests = 2
    /\ ckAuthLog = <<[call |-> 2, token |-> 1], [call |-> 1, token |-> 2]>>
    /\ ckCache.present /\ ckCache.value.token = 2
    /\ Len(ckSent) = 2
    /\ \A k \in 1..2 : ckSent[k].token = ckCalls[ckSent[k].call].token.value

(***************************************************************************)
(*                          Logger: properties                             *)
(***************************************************************************)

\* The keys of the logged data that contain a sensitive name, in any case.
KeysNamingSecrets == {"accessToken", "Authorization", "X-API_KEY"}

RECURSIVE Redacted(_)
\* Every property of the data, at any depth, whose key contains a sensitive
\* name holds '[REDACTED]'.
Redacted(data) ==
    CASE data.kind = "string" -> TRUE
      [] data.kind = "array" ->
            \A k \in 1..Len(data.items) : Redacted(data.items[k])
      [] data.kind = "object" ->
            \A k \in 1..Len(data.props) :
                IF data.props[k].key \in KeysNamingSecrets
                THEN data.props[k].value = Str("[REDACTED]")
                ELSE Redacted(data.props[k].value)

\* The data of a line written to stderr, in either format.
StderrData(line) ==
    IF line.format = "json" THEN line.data
    ELSE IF line.human.text.present THEN Str(line.human.text.value)
    ELSE Obj(line.human.parts)

\* A call of log() has been made in the step.
LogCalled ==
    <<lgCall, lgStderr, lgNotification>>' # <<lgCall, lgStderr, lgNotification>>

\* C30: whatever configure, setLevel and setServer calls came before, a log
\* call writes to stderr or sends a notification only if its level's priority
\* is at least that of the current minimum level; the data written to either
\* sink has every property whose key contains a sensitive name, at any depth,
\* replaced by '[REDACTED]'; and the caller's data holds what it was given.
C30_FilteredAndRedacted ==
    [][LogCalled =>
          /\ lgCall'.kind = "log"
          /\ (lgStderr'.present \/ lgNotification'.present) =>
                LOG_LEVEL_PRIORITY(lgCall'.level) >= LOG_LEVEL_PRIORITY(lgMinLevel)
          /\ lgStderr'.present => Redacted(StderrData(lgStderr'.value))
          /\ lgNotification'.present => Redacted(lgNotification'.value.data)
          /\ lgCall'.data = lgCall'.given]_vars

\* An Authorization header two objects deep in an array has been logged at
\* the minimum level, after setLevel and setServer: both sinks received it
\* redacted, and the caller still holds the header.
C30_Witness ==
    /\ lgCall.kind = "log"
    /\ lgCall.level = "warning"
    /\ lgMinLevel = "warning"
    /\ lgCall.data =
          Arr(<<Obj(<<Prop("user", Obj(<<Prop("Authorization", Str("Bearer abc"))>>))>>)>>)
    /\ lgStderr.present
    /\ lgStderr.value.format = "json"
    /\ lgNotification.present
    /\ lgNotification.value.data =
          Obj(<<Prop("timestamp", Str(ISOString)),
                Prop("0", Obj(<<Prop("user",
                                     Obj(<<Prop("Authorization", Str("[REDACTED]"))>>))>>)),
                Prop("session_id", Str("uuid-1"))>>)

====
